---- MODULE Spec2Model ----
(***************************************************************************)
(* Model of the relay of capper-times (src/server.py) and of its clients   *)
(* (src/main.py): their role handling, receive paths, boards, countdowns.  *)
(*                                                                         *)
(* The relay is one asyncio event loop.  Every connection is served by one *)
(* handle_client coroutine; a coroutine runs without interruption from one *)
(* await to the next, so one action of the model is the code between two   *)
(* awaits of one coroutine.  websocket.send writes the frame and then      *)
(* awaits, so a send ends the action that performs it.                     *)
(*                                                                         *)
(* Modelled: registration and the optional password handshake, the         *)
(* role_claim and role_release branches of the message loop, the           *)
(* role_status broadcast with its iteration over the live registry, the    *)
(* finally block and the task it creates, and connections closing at any   *)
(* moment.  inp and out expose the frame taken and the frames written by   *)
(* the last step; granted records who has been told it holds a role.       *)
(*                                                                         *)
(* Spec is the relay with two connections that send role requests and      *)
(* frames that are no request; SpecFan is the relay with three connections *)
(* that send start and board_update events; SpecForward draws the events   *)
(* from all the objects a client may send; SpecStall adds a connection     *)
(* whose peer has stopped reading; SpecFleet puts a client at the far end  *)
(* of each connection.  One client alone: SpecDerive computes the display  *)
(* of every raw board state; SpecSync gives it frames of the relay or      *)
(* datagrams of the subnet; SpecLocal presses its hotkeys while the        *)
(* connection comes and goes; SpecRoles gives it role frames and the       *)
(* settings window; SpecBoards runs its arrow keys in the keyboard thread  *)
(* beside the slots of the Qt thread; SpecReplay gives it frames twice.    *)
(***************************************************************************)
EXTENDS Integers, Sequences, FiniteSets, TLC

\* ---------------------------------------------------------------- bounds
NConn == 2
MaxMsgs == 3
NFan == 3

\* ------------------------------------------------------------- constants
Conns == 1..NConn
Ids == {"X", "Y"}
None == "None"
Secret == "secret"
LOCKED_ROLES == {"Capper 1", "Capper 2"}
RoleNames == LOCKED_ROLES \cup {"Offense"}
NoConn == 0

VARIABLES
    PASSWORD,      \* the shared secret, None when no secret is configured
    clients,       \* the connection registry
    role_claims,   \* dict: locked role -> [id, ws]
    pc,            \* position of each connection's handle_client coroutine
    closed,        \* connections whose transport is closed: send raises ConnectionClosed
    iter,          \* per task: the running "for client in clients" loop
    rtask,         \* per connection: the task created by _release_roles_for_client
    nrecv,         \* number of frames taken from the connections so far
    inp,           \* the frame taken from a connection by the last step, if any
    out,           \* the frames written to connections by the last step
    granted,       \* [ws, role, id]: role_result ok:true was sent and the role
                   \* was neither released by ws since nor has ws's handler ended
    app            \* the clients (src/main.py) at the far end of the connections,
                   \* where they are modelled: the empty function otherwise

vars == <<PASSWORD, clients, role_claims, pc, closed, iter, rtask, nrecv, inp, out,
          granted, app>>

\* ------------------------------------------------------------- messages
RoleClaimMsg(r, s) == [cmd |-> "role_claim", role |-> r, sender |-> s]
RoleReleaseMsg(r, s) == [cmd |-> "role_release", role |-> r, sender |-> s]
RoleResultMsg(r, ok) == [cmd |-> "role_result", role |-> r, ok |-> ok]
RoleStatusMsg(p) == [cmd |-> "role_status", roles |-> p]
ConnectedMsg(n) == [cmd |-> "connected", clients |-> n]
AuthRequiredMsg == [cmd |-> "auth_required"]
AuthFailedMsg == [cmd |-> "auth_failed"]

\* the reply of a client to auth_required
AuthMsg(pw) == [cmd |-> "auth", password |-> pw]

\* frames that are no request.  A frame is written as the object json.loads
\* makes of it; the field json tells the frames that json.loads rejects
\* ("text") or turns into something that is no object ("list") from objects.
NotJson == [cmd |-> None, json |-> "text"]
NotObject == [cmd |-> None, json |-> "list"]
NoCmd == [cmd |-> None]
UnknownCmd == [cmd |-> "ping"]
BadFrames == {NotJson, NotObject, NoCmd, UnknownCmd}

\* the frames a connection may deliver; the relay never reads the sender of
\* a role_release, so one sender stands for all
ClientMsgs ==
    {RoleClaimMsg(r, s) : r \in RoleNames, s \in Ids}
    \cup {RoleReleaseMsg(r, "X") : r \in RoleNames}
    \cup BadFrames

NoInput == [ws |-> NoConn]
Input(w, m) == [ws |-> w, m |-> m]
Frame(c, m) == [to |-> c, m |-> m]

\* await x.send(m): the frame is written unless the connection is closed
Sent(c, m) == IF closed[c] THEN {} ELSE {Frame(c, m)}

\* ------------------------------------------------------- pure functions
\* data = json.loads(message); cmd = data.get("cmd") (lines 51-52): the
\* exception raised, or "dict" when data is an object
JsonLoads(m) ==
    IF "json" \notin DOMAIN m THEN "dict"
    ELSE IF m.json = "text" THEN "JSONDecodeError" ELSE "AttributeError"

\* data.get(k, d)
Get(data, k, d) == IF k \in DOMAIN data THEN data[k] ELSE d

\* mutant: the object received is forwarded as it is
StartMsgAsReceived(data) == data

\* lines 56-61: the start event the relay forwards.  JSON numbers are written
\* as their text, null as None.
StartMsg(data) ==
    [cmd |-> "start",
     seconds |-> Get(data, "seconds", None),
     sender |-> Get(data, "sender", None),
     capper |-> Get(data, "capper", "1")]

\* lines 78-84: the board_update event the relay forwards
BoardUpdateMsg(data) ==
    [cmd |-> "board_update",
     board |-> Get(data, "board", None),
     index |-> Get(data, "index", None),
     state |-> Get(data, "state", None),
     sender |-> Get(data, "sender", None)]

\* _roles_payload(): owner id or None for each locked role
RolesPayload(claims) ==
    [r \in LOCKED_ROLES |-> IF r \in DOMAIN claims THEN claims[r].id ELSE None]

\* mutant: any connection may release a claimed role
BoundToAnyone(claims, r, ws) == r \in DOMAIN claims

\* role_claims.get(role, {}).get("ws") == websocket
BoundTo(claims, r, ws) == r \in DOMAIN claims /\ claims[r].ws = ws

\* mutant: the owner is never looked at
MayClaimAnyone(claims, r, ws) == TRUE

\* the test of line 105: owner is None or owner.get("ws") == websocket
MayClaim(claims, r, ws) == r \notin DOMAIN claims \/ claims[r].ws = ws

\* mutant: the claim is answered but never written
SetClaimLost(claims, r, s, ws) == claims

\* mutant: a grant unclaims the other role
SetClaimAlone(claims, r, s, ws) == [x \in {r} |-> [id |-> s, ws |-> ws]]

\* role_claims[role] = {"id": sender, "ws": websocket}
SetClaim(claims, r, s, ws) ==
    [x \in DOMAIN claims \cup {r} |->
        IF x = r THEN [id |-> s, ws |-> ws] ELSE claims[x]]

\* role_claims.pop(role, None)
PopClaim(claims, r) == [x \in DOMAIN claims \ {r} |-> claims[x]]

\* mutant: the claims of a connection outlive it
ReleasedClaimsKept(claims, ws) == claims

\* the loop of _release_roles_for_client: pop every role bound to websocket
ReleasedClaims(claims, ws) ==
    [x \in {r \in DOMAIN claims : claims[r].ws # ws} |-> claims[x]]

\* mutant: role_result goes to the whole registry, like role_status
ResultFramesToAll(w, r, ok) ==
    UNION {Sent(c, RoleResultMsg(r, ok)) : c \in clients \cup {w}}

\* mutant: a refusal is not answered
ResultFramesOkOnly(w, r, ok) == IF ok THEN Sent(w, RoleResultMsg(r, ok)) ELSE {}

\* the connection the role_result of a request is written to (lines 107, 112)
ResultFrames(w, r, ok) == Sent(w, RoleResultMsg(r, ok))

\* mutant: the broadcast task is created whether or not a role was released
ReleaseTaskAlways(claims, ws, old) == "pending"

\* lines 161-163: the task is created if some role was released
ReleaseTask(claims, ws, old) ==
    IF ReleasedClaims(claims, ws) # claims THEN "pending" ELSE old

\* ------------------------------------------------------------ iteration
Tasks == {<<k, w>> : k \in {"h", "r"}, w \in Conns}
HTask(w) == <<"h", w>>
RTask(w) == <<"r", w>>

\* msg: the frame being sent; snap: the registry when the iterator was made;
\* seen: the connections met so far; disc: the local set "disconnected";
\* excl: a connection the loop body skips (none for role_status)
NoIter == [msg |-> [cmd |-> None], snap |-> {}, seen |-> {}, disc |-> {}, excl |-> NoConn]

\* "for client in clients": the iterator remembers the size of the set
NewIter(msg, excl) ==
    [msg |-> msg, snap |-> clients, seen |-> {}, disc |-> {}, excl |-> excl]

\* What the next trip round the loop can do.  A set whose size changed since
\* the iterator was made raises RuntimeError.  The order of a set is the
\* order of its hash table, so any element not yet met can come next; when
\* the set was changed to the same size, the elements added meanwhile are
\* met or not, depending on their slot.
LoopOutcomes(it) ==
    IF Cardinality(clients) # Cardinality(it.snap)
    THEN {[kind |-> "error", to |-> NoConn]}
    ELSE LET cand == (clients \ it.seen) \ {it.excl} IN
         {[kind |-> "send", to |-> c] : c \in cand}
         \cup (IF cand \cap it.snap = {}
               THEN {[kind |-> "end", to |-> NoConn]} ELSE {})

\* mutant: a loop that ends removes every connection it met
LoopTripDropsSeen(t, it, o) ==
    /\ iter' = [iter EXCEPT ![t] =
                  IF o.kind = "send"
                  THEN [it EXCEPT !.seen = @ \cup {o.to},
                                  !.disc = IF closed[o.to] THEN @ \cup {o.to} ELSE @]
                  ELSE NoIter]
    /\ out' = IF o.kind = "send" THEN Sent(o.to, it.msg) ELSE {}
    /\ clients' = IF o.kind = "end" THEN clients \ it.seen ELSE clients

\* One trip round the loop: await client.send(msg) with ConnectionClosed
\* caught per client; at exhaustion clients.difference_update(disconnected);
\* RuntimeError leaves the loop with nothing removed from the registry.
LoopTrip(t, it, o) ==
    /\ iter' = [iter EXCEPT ![t] =
                  IF o.kind = "send"
                  THEN [it EXCEPT !.seen = @ \cup {o.to},
                                  !.disc = IF closed[o.to] THEN @ \cup {o.to} ELSE @]
                  ELSE NoIter]
    /\ out' = IF o.kind = "send" THEN Sent(o.to, it.msg) ELSE {}
    /\ clients' = IF o.kind = "end" THEN clients \ it.disc ELSE clients

\* async def _broadcast_role_status(): the message is built from the table
\* as it is when the coroutine starts to run
BroadcastRoleStatusIter(claims) == NewIter(RoleStatusMsg(RolesPayload(claims)), NoConn)

\* ----------------------------------------------------------------- Init
Init ==
    /\ PASSWORD \in {None, Secret}
    /\ clients = {}
    /\ role_claims = <<>>
    /\ pc = [w \in Conns |-> "new"]
    /\ closed = [w \in Conns |-> FALSE]
    /\ iter = [t \in Tasks |-> NoIter]
    /\ rtask = [w \in Conns |-> "none"]
    /\ nrecv = 0
    /\ inp = NoInput
    /\ out = {}
    /\ granted = {}
    /\ app = <<>>

\* ------------------------------------------------------ handler's finally
\* finally: clients.discard(websocket); _release_roles_for_client(websocket).
\* cl is the registry and fr the frames written by the step that ends the
\* handler; the library closes the connection when the handler returns.
Finally(w, cl, fr) ==
    /\ clients' = cl \ {w}
    /\ role_claims' = ReleasedClaims(role_claims, w)
    /\ rtask' = [rtask EXCEPT ![w] = ReleaseTask(role_claims, w, @)]
    /\ pc' = [pc EXCEPT ![w] = "done"]
    /\ closed' = [closed EXCEPT ![w] = TRUE]
    /\ out' = fr
    /\ granted' = {g \in granted : g.ws # w}
    /\ UNCHANGED <<PASSWORD, iter, nrecv>>

\* await websocket.send(m) outside the inner try: ConnectionClosed ends the handler
SendOrEnd(w, cl, m, next) ==
    IF closed[w]
    THEN Finally(w, cl, {})
    ELSE /\ clients' = cl
         /\ out' = {Frame(w, m)}
         /\ pc' = [pc EXCEPT ![w] = next]
         /\ UNCHANGED <<PASSWORD, role_claims, closed, iter, rtask, nrecv, granted>>

\* ------------------------------------------------------------- handshake
\* mutant: the registry is counted before the connection is added to it
ConnectCountedBefore(w) ==
    /\ pc[w] = "new"
    /\ \A v \in DOMAIN pc : v < w => pc[v] # "new"
    /\ inp' = NoInput
    /\ IF PASSWORD # None
       THEN SendOrEnd(w, clients \cup {w}, AuthRequiredMsg, "auth")
       ELSE SendOrEnd(w, clients \cup {w}, ConnectedMsg(Cardinality(clients)), "hs_status")

\* lines 30-42: register, then auth_required or connected.  Connection
\* objects are interchangeable, so they are numbered in the order they arrive.
Connect(w) ==
    /\ pc[w] = "new"
    /\ \A v \in DOMAIN pc : v < w => pc[v] # "new"
    /\ inp' = NoInput
    /\ IF PASSWORD # None
       THEN SendOrEnd(w, clients \cup {w}, AuthRequiredMsg, "auth")
       ELSE SendOrEnd(w, clients \cup {w},
                      ConnectedMsg(Cardinality(clients \cup {w})), "hs_status")

\* mutant: the return of line 40 is missing
AuthNoReturn(w, pw) ==
    /\ pc[w] = "auth"
    /\ inp' = Input(w, AuthMsg(pw))
    /\ IF pw # PASSWORD
       THEN SendOrEnd(w, clients, AuthFailedMsg, "hs_status")
       ELSE SendOrEnd(w, clients, ConnectedMsg(Cardinality(clients)), "hs_status")

\* lines 36-42: the reply to auth_required
Auth(w, pw) ==
    /\ pc[w] = "auth"
    /\ inp' = Input(w, AuthMsg(pw))
    /\ IF pw # PASSWORD
       THEN Finally(w, clients, Sent(w, AuthFailedMsg))
       ELSE SendOrEnd(w, clients, ConnectedMsg(Cardinality(clients)), "hs_status")

\* line 36 raising ConnectionClosed, or line 37 or 38 raising on a frame that
\* is not a JSON object: the outer except, then finally
AuthAbort(w) ==
    /\ pc[w] = "auth"
    /\ inp' = NoInput
    /\ Finally(w, clients, {})

\* line 43: the role_status snapshot
HandshakeStatus(w) ==
    /\ pc[w] = "hs_status"
    /\ inp' = NoInput
    /\ SendOrEnd(w, clients, RoleStatusMsg(RolesPayload(role_claims)), "recv")

\* ------------------------------------------------------------- messages
\* where the handler goes after a trip round a broadcast loop
AfterTrip(o) == IF o.kind = "send" THEN "bcast" ELSE "recv"

\* mutant: role_status is broadcast after a refusal too
AfterClaimAlways(w, ok) == IF ~closed[w] THEN "claim_bcast" ELSE "recv"

\* where the handler goes after role_result: line 110 is reached in the
\* accepting branch only, and only if the send of line 107 did not raise
AfterClaim(w, ok) == IF ok /\ ~closed[w] THEN "claim_bcast" ELSE "recv"

\* lines 100-114: cmd == "role_claim".  A role_result that cannot be written
\* raises ConnectionClosed, which line 123 catches: the loop goes on.
RoleClaim(w, m) ==
    /\ UNCHANGED <<PASSWORD, clients, closed, iter, rtask>>
    /\ IF m.role \in LOCKED_ROLES
       THEN IF MayClaim(role_claims, m.role, w)
            THEN /\ role_claims' = SetClaim(role_claims, m.role, m.sender, w)
                 /\ out' = ResultFrames(w, m.role, TRUE)
                 /\ pc' = [pc EXCEPT ![w] = AfterClaim(w, TRUE)]
                 /\ granted' = IF closed[w] THEN granted
                               ELSE {g \in granted : ~(g.ws = w /\ g.role = m.role)}
                                    \cup {[ws |-> w, role |-> m.role, id |-> m.sender]}
            ELSE /\ out' = ResultFrames(w, m.role, FALSE)
                 /\ pc' = [pc EXCEPT ![w] = AfterClaim(w, FALSE)]
                 /\ UNCHANGED <<role_claims, granted>>
       ELSE /\ out' = {}
            /\ UNCHANGED <<role_claims, pc, granted>>

\* lines 115-119: cmd == "role_release"
RoleRelease(w, m) ==
    IF m.role \in LOCKED_ROLES /\ BoundTo(role_claims, m.role, w)
    THEN LET it == BroadcastRoleStatusIter(PopClaim(role_claims, m.role)) IN
         /\ role_claims' = PopClaim(role_claims, m.role)
         /\ granted' = {g \in granted : ~(g.ws = w /\ g.role = m.role)}
         /\ \E o \in LoopOutcomes(it) :
               /\ LoopTrip(HTask(w), it, o)
               /\ pc' = [pc EXCEPT ![w] = AfterTrip(o)]
         /\ UNCHANGED <<PASSWORD, closed, rtask>>
    ELSE /\ out' = {}
         /\ UNCHANGED <<PASSWORD, clients, role_claims, pc, closed, iter, rtask, granted>>

\* where the handler goes after a trip round a fan-out loop
AfterFanTrip(o) == IF o.kind = "send" THEN "fan" ELSE "recv"

\* mutant: the loop sends to the whole registry, sender included
FanoutIterToAll(w, msg) == NewIter(msg, NoConn)

\* lines 63-65 and 86-88: the loop over the registry that skips the sender
FanoutIter(w, msg) == NewIter(msg, w)

\* lines 54-76 and 77-99: cmd == "start" or "board_update", up to the first
\* send; the sender is skipped without an await
Fanout(w, msg) ==
    /\ LET it == FanoutIter(w, msg) IN
       \E o \in LoopOutcomes(it) :
          /\ LoopTrip(HTask(w), it, o)
          /\ pc' = [pc EXCEPT ![w] = AfterFanTrip(o)]
    /\ UNCHANGED <<PASSWORD, role_claims, closed, rtask, granted>>

\* mutant: a frame that is no request is answered with an error frame
DropFrameAnswered(w) ==
    /\ out' = Sent(w, [cmd |-> "error"])
    /\ UNCHANGED <<PASSWORD, clients, role_claims, pc, closed, iter, rtask, granted>>

\* lines 121-124, or no branch of lines 54-119 taken: the frame is dropped
\* and the loop goes on to the next frame
DropFrame(w) ==
    /\ out' = {}
    /\ UNCHANGED <<PASSWORD, clients, role_claims, pc, closed, iter, rtask, granted>>

\* lines 49-124: one frame taken from the connection
Recv(w, m) ==
    /\ pc[w] = "recv"
    /\ nrecv < MaxMsgs
    /\ nrecv' = nrecv + 1
    /\ inp' = Input(w, m)
    /\ CASE JsonLoads(m) # "dict" -> DropFrame(w)
         [] JsonLoads(m) = "dict" /\ m.cmd = "start" -> Fanout(w, StartMsg(m))
         [] JsonLoads(m) = "dict" /\ m.cmd = "board_update" -> Fanout(w, BoardUpdateMsg(m))
         [] JsonLoads(m) = "dict" /\ m.cmd = "role_claim" -> RoleClaim(w, m)
         [] JsonLoads(m) = "dict" /\ m.cmd = "role_release" -> RoleRelease(w, m)
         [] OTHER -> DropFrame(w)

\* lines 64-72 and 87-95 resumed after a send; RuntimeError is caught at line 123
FanoutStep(w) ==
    /\ pc[w] = "fan"
    /\ \E o \in LoopOutcomes(iter[HTask(w)]) :
          /\ LoopTrip(HTask(w), iter[HTask(w)], o)
          /\ pc' = [pc EXCEPT ![w] = AfterFanTrip(o)]
    /\ inp' = NoInput
    /\ UNCHANGED <<PASSWORD, role_claims, closed, rtask, nrecv, granted>>

\* line 110: await _broadcast_role_status() after role_result was sent
ClaimBroadcast(w) ==
    /\ pc[w] = "claim_bcast"
    /\ LET it == BroadcastRoleStatusIter(role_claims) IN
       \E o \in LoopOutcomes(it) :
          /\ LoopTrip(HTask(w), it, o)
          /\ pc' = [pc EXCEPT ![w] = AfterTrip(o)]
    /\ inp' = NoInput
    /\ UNCHANGED <<PASSWORD, role_claims, closed, rtask, nrecv, granted>>

\* lines 147-152 resumed after a send; RuntimeError is caught at line 123
BroadcastStep(w) ==
    /\ pc[w] = "bcast"
    /\ \E o \in LoopOutcomes(iter[HTask(w)]) :
          /\ LoopTrip(HTask(w), iter[HTask(w)], o)
          /\ pc' = [pc EXCEPT ![w] = AfterTrip(o)]
    /\ inp' = NoInput
    /\ UNCHANGED <<PASSWORD, role_claims, closed, rtask, nrecv, granted>>

\* line 49 raising ConnectionClosed (or the iterator ending on a clean close)
HandlerEnd(w) ==
    /\ pc[w] = "recv"
    /\ closed[w]
    /\ inp' = NoInput
    /\ Finally(w, clients, {})

\* --------------------------------------------- task of line 163
\* the task is gone once the loop is left, by exhaustion or by RuntimeError
AfterTripTask(o) == IF o.kind = "send" THEN "run" ELSE "none"

\* the task created by asyncio.create_task starts to run
ReleaseBroadcastStart(w) ==
    /\ rtask[w] = "pending"
    /\ LET it == BroadcastRoleStatusIter(role_claims) IN
       \E o \in LoopOutcomes(it) :
          /\ LoopTrip(RTask(w), it, o)
          /\ rtask' = [rtask EXCEPT ![w] = AfterTripTask(o)]
    /\ inp' = NoInput
    /\ UNCHANGED <<PASSWORD, role_claims, pc, closed, nrecv, granted>>

\* the task resumed after a send; RuntimeError ends the task
ReleaseBroadcastStep(w) ==
    /\ rtask[w] = "run"
    /\ \E o \in LoopOutcomes(iter[RTask(w)]) :
          /\ LoopTrip(RTask(w), iter[RTask(w)], o)
          /\ rtask' = [rtask EXCEPT ![w] = AfterTripTask(o)]
    /\ inp' = NoInput
    /\ UNCHANGED <<PASSWORD, role_claims, pc, closed, nrecv, granted>>

\* ------------------------------------------------------------ environment
\* the peer goes away or the network drops the connection
Close(w) ==
    /\ pc[w] # "done"
    /\ \A v \in DOMAIN pc : v < w => pc[v] # "new"
    /\ ~closed[w]
    /\ closed' = [closed EXCEPT ![w] = TRUE]
    /\ inp' = NoInput
    /\ out' = {}
    /\ UNCHANGED <<PASSWORD, clients, role_claims, pc, iter, rtask, nrecv, granted>>

Next ==
    \/ \E w \in Conns : Connect(w) /\ UNCHANGED app
    \/ \E w \in Conns : \E pw \in {Secret, "wrong"} : Auth(w, pw) /\ UNCHANGED app
    \/ \E w \in Conns : AuthAbort(w) /\ UNCHANGED app
    \/ \E w \in Conns : HandshakeStatus(w) /\ UNCHANGED app
    \/ \E w \in Conns : \E m \in ClientMsgs : Recv(w, m) /\ UNCHANGED app
    \/ \E w \in Conns : ClaimBroadcast(w) /\ UNCHANGED app
    \/ \E w \in Conns : BroadcastStep(w) /\ UNCHANGED app
    \/ \E w \in Conns : HandlerEnd(w) /\ UNCHANGED app
    \/ \E w \in Conns : ReleaseBroadcastStart(w) /\ UNCHANGED app
    \/ \E w \in Conns : ReleaseBroadcastStep(w) /\ UNCHANGED app
    \/ \E w \in Conns : Close(w) /\ UNCHANGED app

Spec == Init /\ [][Next]_vars

\* ------------------------------------------------- the fan-out of events
\* The same handler with three connections, no secret configured, and
\* clients that send start and board_update events.
FanConns == 1..NFan
FanTasks == {<<k, w>> : k \in {"h", "r"}, w \in FanConns}

FanMsgs ==
    {[cmd |-> "start", seconds |-> "35", sender |-> "X", capper |-> "2"],
     [cmd |-> "board_update", board |-> "defense", index |-> "0",
      state |-> "2", sender |-> "X"]}

InitFan ==
    /\ PASSWORD = None
    /\ clients = {}
    /\ role_claims = <<>>
    /\ pc = [w \in FanConns |-> "new"]
    /\ closed = [w \in FanConns |-> FALSE]
    /\ iter = [t \in FanTasks |-> NoIter]
    /\ rtask = [w \in FanConns |-> "none"]
    /\ nrecv = 0
    /\ inp = NoInput
    /\ out = {}
    /\ granted = {}
    /\ app = <<>>

NextFan ==
    \/ \E w \in FanConns : Connect(w) /\ UNCHANGED app
    \/ \E w \in FanConns : HandshakeStatus(w) /\ UNCHANGED app
    \/ \E w \in FanConns : \E m \in FanMsgs : Recv(w, m) /\ UNCHANGED app
    \/ \E w \in FanConns : FanoutStep(w) /\ UNCHANGED app
    \/ \E w \in FanConns : HandlerEnd(w) /\ UNCHANGED app
    \/ \E w \in FanConns : Close(w) /\ UNCHANGED app

SpecFan == InitFan /\ [][NextFan]_vars

\* ------------------------------------------- the events that are forwarded
\* Two connections have completed the handshake, no secret configured, and
\* send start and board_update objects in which each field the relay reads is
\* present or not, and which may carry a field the relay does not read.
StartFields == {"seconds", "sender", "capper"}
BoardFields == {"board", "index", "state", "sender"}
FieldValues ==
    [seconds |-> {"35", "60"}, capper |-> {"1", "2", None}, sender |-> {"X"},
     board |-> {"defense"}, index |-> {"0", "3"}, state |-> {"2"}, note |-> {"x"}]

\* the JSON objects with the given cmd and any of the given fields
Objects(cmd, fields) ==
    UNION {{[cmd |-> cmd] @@ f :
              f \in {g \in [D -> UNION {FieldValues[k] : k \in D}] :
                        \A k \in D : g[k] \in FieldValues[k]}} :
           D \in SUBSET fields}

ForwardInputs ==
    Objects("start", StartFields \cup {"note"})
    \cup Objects("board_update", BoardFields \cup {"note"})

InitForward ==
    /\ PASSWORD = None
    /\ clients = Conns
    /\ role_claims = <<>>
    /\ pc = [w \in Conns |-> "recv"]
    /\ closed = [w \in Conns |-> FALSE]
    /\ iter = [t \in Tasks |-> NoIter]
    /\ rtask = [w \in Conns |-> "none"]
    /\ nrecv = 0
    /\ inp = NoInput
    /\ out = {Frame(NConn, RoleStatusMsg(RolesPayload(<<>>)))}
    /\ granted = {}
    /\ app = <<>>

NextForward ==
    \/ \E w \in Conns : \E m \in ForwardInputs : Recv(w, m) /\ UNCHANGED app
    \/ \E w \in Conns : FanoutStep(w) /\ UNCHANGED app

SpecForward == InitForward /\ [][NextForward]_vars

\* ------------------------------------------------- a stalled connection
\* The peer of one connection has stopped reading: a send to it is written
\* to the transport and never completes, so a task suspended in it is never
\* resumed.  The three connections have completed the handshake and stay;
\* the registry does not change.
StalledConn == 2

InitStall ==
    /\ PASSWORD = None
    /\ clients = FanConns
    /\ role_claims = <<>>
    /\ pc = [w \in FanConns |-> "recv"]
    /\ closed = [w \in FanConns |-> FALSE]
    /\ iter = [t \in FanTasks |-> NoIter]
    /\ rtask = [w \in FanConns |-> "none"]
    /\ nrecv = 0
    /\ inp = NoInput
    /\ out = {Frame(NFan, RoleStatusMsg(RolesPayload(<<>>)))}
    /\ granted = {}
    /\ app = <<>>

\* the fan-out loop resumes when the send it awaits has completed
FanoutResume(w) ==
    /\ StalledConn \notin iter[HTask(w)].seen
    /\ FanoutStep(w)
    /\ UNCHANGED app

NextStall ==
    \/ \E w \in FanConns : \E m \in FanMsgs : Recv(w, m) /\ UNCHANGED app
    \/ \E w \in FanConns : FanoutResume(w)

\* the event loop resumes every task whose await has completed
SpecStall ==
    InitStall /\ [][NextStall]_vars /\ \A w \in FanConns : WF_vars(FanoutResume(w))

\* ------------------------------------------------------------ the clients
\* The fleet: one client (CapTimerApp of src/main.py) at the far end of each
\* connection of the relay, no secret configured.  A handler of the client
\* runs as one step.  inbox holds the frames the relay has written to the
\* client and _listen has not handled yet, outbox the frames the client has
\* handed to its websocket and the relay has not taken yet; queued says that
\* on_ws_connected is scheduled and has not run yet.
Roles == {"Capper 1", "Capper 2", "Offense", "Defense"}
DEFAULT_ROLE == "Capper 1"
MY_ID(c) == IF c = 1 THEN "X" ELSE "Y"

relayvars == <<PASSWORD, clients, role_claims, pc, closed, iter, rtask, nrecv, inp, out,
               granted>>

\* CapTimerApp.__init__ (lines 841-846, 859) and WebSocketClient.__init__
NewApp ==
    [role |-> DEFAULT_ROLE, pending_role |-> None, claimed_role |-> None,
     role_owners |-> [r \in LOCKED_ROLES |-> None],
     running |-> FALSE, queued |-> FALSE, prompted |-> FALSE,
     inbox |-> <<>>, outbox |-> <<>>]

\* send_role_claim, send_role_release: nothing is sent unless running
WsSend(a, m) == IF a.running THEN [a EXCEPT !.outbox = Append(@, m)] ELSE a

\* _release_role
ReleaseRole(a, c, role) == WsSend(a, RoleReleaseMsg(role, MY_ID(c)))

\* mutant: a locked role is left without telling the relay
SetRoleNoRelease(a, c, role) == [a EXCEPT !.role = role]

\* _set_role
SetRole(a, c, role) ==
    IF role = a.role THEN a
    ELSE LET b == IF a.role \in LOCKED_ROLES THEN ReleaseRole(a, c, a.role) ELSE a
         IN  [b EXCEPT !.role = role]

\* _request_role
RequestRole(a, c, role) ==
    IF ~a.running THEN SetRole(a, c, role)
    ELSE WsSend([a EXCEPT !.pending_role = role], RoleClaimMsg(role, MY_ID(c)))

\* mutant: a role the map does not name keeps its owner
HandleRoleStatusMerge(a, roles) ==
    [a EXCEPT !.role_owners = [r \in LOCKED_ROLES |-> Get(roles, r, a.role_owners[r])]]

\* handle_role_status
HandleRoleStatus(a, roles) ==
    [a EXCEPT !.role_owners = [r \in LOCKED_ROLES |-> Get(roles, r, None)]]

\* handle_role_result
HandleRoleResult(a, c, role, ok) ==
    IF role \notin LOCKED_ROLES THEN a
    ELSE IF ok
         THEN SetRole([a EXCEPT !.claimed_role = role, !.pending_role = None], c, role)
         ELSE [a EXCEPT !.pending_role = None]

\* isinstance(roles, dict): a JSON value that is no object is written as a
\* record with the field json
IsDict(v) == "json" \notin DOMAIN v

\* _listen: a role frame of the relay handled (lines 152-159); a roles map
\* that is missing is the empty dict, an ok that is missing is false
Listen(a, c, m) ==
    IF m.cmd = "role_status"
    THEN IF IsDict(Get(m, "roles", <<>>))
         THEN HandleRoleStatus(a, Get(m, "roles", <<>>)) ELSE a
    ELSE IF m.cmd = "role_result"
    THEN HandleRoleResult(a, c, Get(m, "role", None), Get(m, "ok", FALSE))
    ELSE a

\* the frames the relay has written in a step arrive in the inboxes; the
\* frames _listen has no branch for (connected) are left out
Deliver(ap, frames) ==
    [c \in DOMAIN ap |->
       IF \E f \in frames : f.to = c /\ f.m.cmd \in {"role_status", "role_result"}
       THEN [ap[c] EXCEPT !.inbox = Append(@, (CHOOSE f \in frames : f.to = c).m)]
       ELSE ap[c]]

\* a step of the relay seen from the fleet
RelayStep == app' = Deliver(app, out')

\* the relay takes the next frame the client has sent
RelayRecv(c) ==
    /\ app[c].outbox # <<>>
    /\ Recv(c, Head(app[c].outbox))
    /\ app' = Deliver([app EXCEPT ![c].outbox = Tail(@)], out')

\* _connect (lines 96-112): the connection is up, on_ws_connected is scheduled
AppWsConnected(c) ==
    /\ pc[c] # "new"
    /\ ~app[c].running
    /\ app' = [app EXCEPT ![c].running = TRUE, ![c].queued = TRUE]
    /\ UNCHANGED relayvars

\* on_ws_connected (lines 1022-1024)
AppOnWsConnected(c) ==
    /\ app[c].queued
    /\ app' = [app EXCEPT ![c] =
                 LET a == [@ EXCEPT !.queued = FALSE] IN
                 IF a.role \in LOCKED_ROLES THEN RequestRole(a, c, a.role) ELSE a]
    /\ UNCHANGED relayvars

\* run (lines 1214-1219): the start-up prompt; selected is None when the
\* dialog is cancelled
AppRun(c, selected) ==
    /\ ~app[c].prompted
    /\ app' = [app EXCEPT ![c] =
                 LET a == [@ EXCEPT !.prompted = TRUE] IN
                 IF a.role = DEFAULT_ROLE /\ selected # None
                 THEN SetRole(a, c, selected) ELSE a]
    /\ UNCHANGED relayvars

\* _listen takes the next frame of the relay
AppListen(c) ==
    /\ app[c].running
    /\ app[c].inbox # <<>>
    /\ app' = [app EXCEPT ![c] =
                 Listen([@ EXCEPT !.inbox = Tail(@)], c, Head(app[c].inbox))]
    /\ UNCHANGED relayvars

InitFleet ==
    /\ PASSWORD = None
    /\ clients = {}
    /\ role_claims = <<>>
    /\ pc = [w \in Conns |-> "new"]
    /\ closed = [w \in Conns |-> FALSE]
    /\ iter = [t \in Tasks |-> NoIter]
    /\ rtask = [w \in Conns |-> "none"]
    /\ nrecv = 0
    /\ inp = NoInput
    /\ out = {}
    /\ granted = {}
    /\ app = [c \in Conns |-> NewApp]

NextFleet ==
    \/ \E c \in Conns : Connect(c) /\ RelayStep
    \/ \E c \in Conns : HandshakeStatus(c) /\ RelayStep
    \/ \E c \in Conns : RelayRecv(c)
    \/ \E c \in Conns : ClaimBroadcast(c) /\ RelayStep
    \/ \E c \in Conns : BroadcastStep(c) /\ RelayStep
    \/ \E c \in Conns : AppWsConnected(c)
    \/ \E c \in Conns : AppOnWsConnected(c)
    \/ \E c \in Conns : \E r \in Roles \cup {None} : AppRun(c, r)
    \/ \E c \in Conns : AppListen(c)

SpecFleet == InitFleet /\ [][NextFleet]_vars

\* ------------------------------------------------- the client's boards
\* BoardState of a client: for each board the list of raw markers, indexed
\* from 0 as in the source, and the list each BoardWidget displays.
BOARD_ASSETS == <<"Generator", "Turret 1", "Turret 2", "Radar / Sensor">>
Boards == {"defense", "offense"}
AssetIdx == 0 .. (Len(BOARD_ASSETS) - 1)
Markers == {0, 1, 2}
RawLists == [AssetIdx -> Markers]
OtherBoard(b) == IF b = "defense" THEN "offense" ELSE "defense"

\* the outcome of a call: the value returned and the object's fields after it
Call(ret, self) == [ret |-> ret, self |-> self]

\* mutant: the loops run on the list held by the client, not on a copy of it
EffectiveInPlace(self, board) ==
    LET s1 == [i \in AssetIdx |->
                 IF self.board_states[board][i] = 1 THEN 0
                 ELSE self.board_states[board][i]]
        s2 == IF s1[0] = 2 THEN [i \in AssetIdx |-> IF i >= 1 THEN 1 ELSE s1[i]]
              ELSE s1
    IN  Call(s2, [self EXCEPT !.board_states[board] = s2])

\* mutant: state 1 is displayed as it is
EffectiveNoCollapse(self, board) ==
    LET states == self.board_states[board]
    IN  Call(IF states[0] = 2 THEN [i \in AssetIdx |-> IF i >= 1 THEN 1 ELSE states[i]]
             ELSE states, self)

\* mutant: the dependency rule also rewrites the generator
EffectiveAllForced(self, board) ==
    LET states == self.board_states[board]
        s1 == [i \in AssetIdx |-> IF states[i] = 1 THEN 0 ELSE states[i]]
    IN  Call(IF s1[0] = 2 THEN [i \in AssetIdx |-> 1] ELSE s1, self)

\* _effective_board_states: a copy of the raw list (line 1071), every 1
\* replaced by 0 (1072-1074), then every asset after the generator replaced
\* by 1 when the generator is 2 (1075-1077)
EffectiveBoardStates(self, board) ==
    LET states == self.board_states[board]
        s1 == [i \in AssetIdx |-> IF states[i] = 1 THEN 0 ELSE states[i]]
        s2 == IF s1[0] = 2 THEN [i \in AssetIdx |-> IF i >= 1 THEN 1 ELSE s1[i]]
              ELSE s1
    IN  Call(s2, self)

\* BoardWidget.set_states: the values are clamped to 0..2
SetStates(states) ==
    [i \in DOMAIN states |->
       IF states[i] < 0 THEN 0 ELSE IF states[i] > 2 THEN 2 ELSE states[i]]

\* _refresh_board_display
RefreshBoardDisplay(self, board) ==
    LET r == EffectiveBoardStates(self, board)
    IN  [r.self EXCEPT !.shown[board] = SetStates(r.ret)]

\* A client whose raw markers are any two lists of markers; shown is what
\* the BoardWidgets hold (line 265), refreshed the boards whose display has
\* been computed.
NewBoards(raw) ==
    [board_states |-> raw, shown |-> [b \in Boards |-> [i \in AssetIdx |-> 0]],
     refreshed |-> {}]

InitDerive ==
    /\ PASSWORD = None
    /\ clients = {}
    /\ role_claims = <<>>
    /\ pc = [w \in Conns |-> "new"]
    /\ closed = [w \in Conns |-> FALSE]
    /\ iter = [t \in Tasks |-> NoIter]
    /\ rtask = [w \in Conns |-> "none"]
    /\ nrecv = 0
    /\ inp = NoInput
    /\ out = {}
    /\ granted = {}
    /\ app \in {NewBoards(raw) : raw \in [Boards -> RawLists]}

\* the display of a board is computed
Refresh(b) ==
    /\ app' = [RefreshBoardDisplay(app, b) EXCEPT !.refreshed = @ \cup {b}]
    /\ UNCHANGED relayvars

NextDerive == \E b \in Boards : Refresh(b)

SpecDerive == InitDerive /\ [][NextDerive]_vars

\* ------------------------------------------- the client's receive paths
\* One client (CapTimerApp) with its overlay window.  A signal emitted from
\* the websocket thread, the UDP listener thread or a hotkey thread is queued
\* and its slots run later in the Qt thread.  Time is counted in ticks of the
\* 50 ms timer of the window, so 35 seconds are 700 ticks.
MaxSignals == 1
MaxTicks == 1

TicksPerSecond == 20
TIMER_OPTIONS == <<35, 25, 20>>
Me == 1

\* int(x) and float(x) of the JSON values that occur: numbers are written as
\* their text; any other value ("abc", null) raises ValueError or
\* TypeError.  float(x) is given in ticks.
IntOf == [t \in {"-1", "0", "1", "2", "3", "4"} |->
            CASE t = "-1" -> -1 [] t = "0" -> 0 [] t = "1" -> 1 [] t = "2" -> 2
              [] t = "3" -> 3 [] t = "4" -> 4]
FloatOf == [t \in {"35", "0.05", "0", "-5"} |->
              CASE t = "35" -> 35 * TicksPerSecond [] t = "0.05" -> 1
                [] t = "0" -> 0 [] t = "-5" -> (0 - 5) * TicksPerSecond]

StartSignal(index, seconds) == [sig |-> "start", index |-> index, seconds |-> seconds]
BoardSignal(board, index, state) ==
    [sig |-> "board", board |-> board, index |-> index, state |-> state]

\* signal.emit from a thread that is not the Qt thread
Emit(a, s) == [a EXCEPT !.signals = Append(@, s)]

\* CapTimerApp.__init__ and OverlayWindow.__init__: the fields of NewApp and
\* the boards (847-850, BoardWidget line 265), the countdowns (line 389), the
\* 50 ms timer, the hotkey cycle (835), show_defense and show_offense
\* (842-843), the selected assets (851), the transports (859-889); sent is
\* what the last step put on the network as a datagram
NewClient(ws, sock_tx) ==
    NewApp @@
    [board_states |-> [b \in Boards |-> [i \in AssetIdx |-> 0]],
     shown |-> [b \in Boards |-> [i \in AssetIdx |-> 0]],
     remaining |-> [i \in 0..1 |-> 0],
     qtimer |-> FALSE,
     cycle_index |-> [i \in 0..1 |-> -1],
     show |-> [b \in Boards |-> TRUE],
     board_selected |-> [b \in Boards |-> 0],
     signals |-> <<>>,
     ws |-> ws,
     sock_tx |-> sock_tx,
     sent |-> <<>>,
     nticks |-> 0]

\* lines 126-138 of _listen and 1191-1199 of _udp_listener: the start event
\* of another sender; an exception of int() or float() is caught by the
\* handler of the loop (lines 160, 1211)
ReceiveStart(a, data) ==
    LET capper == Get(data, "capper", "1") IN
    IF capper \notin DOMAIN IntOf THEN a
    ELSE IF IntOf[capper] - 1 \notin {0, 1} THEN a
    ELSE IF data.seconds \notin DOMAIN FloatOf THEN a
    ELSE Emit(a, StartSignal(IntOf[capper] - 1, FloatOf[data.seconds]))

\* mutant: the index of a board_update is not checked
ReceiveBoardUpdateAnyIndex(a, data) ==
    LET index == Get(data, "index", "-1")
        state == Get(data, "state", "-1") IN
    IF index \notin DOMAIN IntOf \/ state \notin DOMAIN IntOf THEN a
    ELSE IF Get(data, "board", None) \notin {"defense", "offense"} THEN a
    ELSE IF IntOf[state] \notin {0, 1, 2} THEN a
    ELSE Emit(a, BoardSignal(data.board, IntOf[index], IntOf[state]))

\* lines 142-151 of _listen and 1201-1210 of _udp_listener
ReceiveBoardUpdate(a, data) ==
    LET index == Get(data, "index", "-1")
        state == Get(data, "state", "-1") IN
    IF index \notin DOMAIN IntOf \/ state \notin DOMAIN IntOf THEN a
    ELSE IF Get(data, "board", None) \notin {"defense", "offense"} THEN a
    ELSE IF IntOf[index] < 0 \/ IntOf[index] >= Len(BOARD_ASSETS) THEN a
    ELSE IF IntOf[state] \notin {0, 1, 2} THEN a
    ELSE Emit(a, BoardSignal(data.board, IntOf[index], IntOf[state]))

\* mutant: the sender of a start is not looked at
WsListenAnySender(a, c, m) ==
    IF JsonLoads(m) # "dict" THEN a
    ELSE IF m.cmd = "start" /\ "seconds" \in DOMAIN m THEN ReceiveStart(a, m)
    ELSE IF m.cmd = "board_update"
         THEN IF Get(m, "sender", None) = MY_ID(c) THEN a ELSE ReceiveBoardUpdate(a, m)
    ELSE Listen(a, c, m)

\* _listen (lines 122-162): one frame of the relay
WsListen(a, c, m) ==
    IF JsonLoads(m) # "dict" THEN a
    ELSE IF m.cmd = "start" /\ "seconds" \in DOMAIN m
         THEN IF Get(m, "sender", None) = MY_ID(c) THEN a ELSE ReceiveStart(a, m)
    ELSE IF m.cmd = "board_update"
         THEN IF Get(m, "sender", None) = MY_ID(c) THEN a ELSE ReceiveBoardUpdate(a, m)
    ELSE Listen(a, c, m)

\* _udp_listener (lines 1185-1212): one datagram; a datagram that is no
\* UTF-8 text or no JSON raises and is skipped
UdpListen(a, c, m) ==
    IF "json" \in DOMAIN m THEN a
    ELSE IF Get(m, "sender", None) = MY_ID(c) THEN a
    ELSE IF m.cmd = "start" /\ "seconds" \in DOMAIN m THEN ReceiveStart(a, m)
    ELSE IF m.cmd = "board_update" THEN ReceiveBoardUpdate(a, m)
    ELSE a

\* mutant: a countdown that is running is not restarted
StartTimerIfIdle(a, index, seconds) ==
    IF ~(0 <= index /\ index < 2) THEN a
    ELSE IF a.remaining[index] > 0 THEN a
    ELSE [a EXCEPT !.remaining[index] = seconds, !.qtimer = TRUE]

\* OverlayWindow.start_timer (lines 488-518)
StartTimer(a, index, seconds) ==
    IF ~(0 <= index /\ index < 2) THEN a
    ELSE [a EXCEPT !.remaining[index] = seconds, !.qtimer = TRUE]

\* BoardWidget.set_state (lines 280-283), reached from the window's slot
SetState(a, board, index, state) ==
    IF 0 <= index /\ index < Len(BOARD_ASSETS)
    THEN [a EXCEPT !.shown[board][index] =
                      IF state < 0 THEN 0 ELSE IF state > 2 THEN 2 ELSE state]
    ELSE a

\* mutant: a board_update flips the marker between 0 and 2
ApplyBoardUpdateFlip(a, board, index, state) ==
    IF board \notin Boards THEN a
    ELSE IF index < 0 \/ index >= Len(BOARD_ASSETS) THEN a
    ELSE IF state \notin {0, 1, 2} THEN a
    ELSE RefreshBoardDisplay(
            [a EXCEPT !.board_states[board][index] = IF @ = 0 THEN 2 ELSE 0],
            board)

\* CapTimerApp._apply_board_update (lines 1164-1174): state 1 is stored as 0
ApplyBoardUpdate(a, board, index, state) ==
    IF board \notin Boards THEN a
    ELSE IF index < 0 \/ index >= Len(BOARD_ASSETS) THEN a
    ELSE IF state \notin {0, 1, 2} THEN a
    ELSE RefreshBoardDisplay(
            [a EXCEPT !.board_states[board][index] = IF state = 1 THEN 0 ELSE state],
            board)

\* the slots connected to a signal, in the order they were connected (lines
\* 349-350 and 856)
Slots(a, s) ==
    IF s.sig = "start" THEN StartTimer(a, s.index, s.seconds)
    ELSE ApplyBoardUpdate(SetState(a, s.board, s.index, s.state),
                          s.board, s.index, s.state)
\* the text of the durations a hotkey announces
SecondsText == [s \in {35, 25, 20} |->
                  CASE s = 35 -> "35" [] s = 25 -> "25" [] s = 20 -> "20"]

\* the start event a hotkey announces (lines 176-178 and 1107)
HotkeyMsg(c, sec, index) ==
    [cmd |-> "start", seconds |-> SecondsText[sec], sender |-> MY_ID(c),
     capper |-> IF index = 0 THEN "1" ELSE "2"]

\* mutant: without a transport the hotkey does nothing
OnHotkeyNeedsNetwork(a, c, index, raises) ==
    LET k == (a.cycle_index[index] + 1) % Len(TIMER_OPTIONS)
        sec == TIMER_OPTIONS[k + 1]
        b == Emit([a EXCEPT !.cycle_index[index] = k],
                  StartSignal(index, sec * TicksPerSecond))
    IN  IF a.ws # "none" /\ a.running
        THEN IF raises THEN a ELSE WsSend(b, HotkeyMsg(c, sec, index))
        ELSE IF a.sock_tx
        THEN IF raises THEN a ELSE [b EXCEPT !.sent = <<HotkeyMsg(c, sec, index)>>]
        ELSE a

\* _on_hotkey (lines 1083-1112) with send_timer (172-181): the next duration
\* of the cycle is emitted to the window, then announced on the websocket
\* when it is running, else on the subnet when there is a socket; raises
\* says that the send raises, which both paths catch
OnHotkey(a, c, index, raises) ==
    LET k == (a.cycle_index[index] + 1) % Len(TIMER_OPTIONS)
        sec == TIMER_OPTIONS[k + 1]
        b == Emit([a EXCEPT !.cycle_index[index] = k],
                  StartSignal(index, sec * TicksPerSecond))
    IN  IF a.ws # "none" /\ a.running
        THEN IF raises THEN b ELSE WsSend(b, HotkeyMsg(c, sec, index))
        ELSE IF a.sock_tx
        THEN IF raises THEN b ELSE [b EXCEPT !.sent = <<HotkeyMsg(c, sec, index)>>]
        ELSE b

\* OverlayWindow._tick with stop (lines 520-542): one timeout of the timer
TickTimeout(a) ==
    LET r == [i \in 0..1 |->
                IF a.remaining[i] <= 0 THEN a.remaining[i]
                ELSE IF a.remaining[i] - 1 <= 0 THEN 0 ELSE a.remaining[i] - 1]
    IN  [a EXCEPT !.remaining = r, !.qtimer = \E i \in 0..1 : r[i] > 0,
                  !.nticks = @ + 1]

\* what the last step handed to the network has left the client
Fresh(a) == [a EXCEPT !.outbox = <<>>, !.sent = <<>>]

relaystate == <<PASSWORD, clients, role_claims, pc, closed, iter, rtask, nrecv, out,
                granted>>

\* the events of the client that are no frame: a key, a signal delivered to
\* its slots, a timeout, a change of the connection
Event(kind, arg) == [ws |-> NoConn, ev |-> kind, arg |-> arg]

\* _connect succeeds (lines 101-112)
WsConnected(c) ==
    /\ app[c].ws = "connecting"
    /\ app' = [app EXCEPT ![c] = [Fresh(@) EXCEPT !.ws = "connected", !.running = TRUE,
                                                  !.queued = TRUE]]
    /\ inp' = Event("ws", "connected")
    /\ UNCHANGED relaystate

\* _connect fails (lines 114-117)
WsFailed(c) ==
    /\ app[c].ws = "connecting"
    /\ app' = [app EXCEPT ![c] = [Fresh(@) EXCEPT !.ws = "failed"]]
    /\ inp' = Event("ws", "failed")
    /\ UNCHANGED relaystate

\* _listen ends with the connection (lines 163-170)
WsDisconnected(c) ==
    /\ app[c].ws = "connected"
    /\ app' = [app EXCEPT ![c] = [Fresh(@) EXCEPT !.ws = "disconnected",
                                                  !.running = FALSE]]
    /\ inp' = Event("ws", "disconnected")
    /\ UNCHANGED relaystate

\* a frame of the relay is handled by _listen
WsFrame(c, m) ==
    /\ app[c].ws = "connected"
    /\ Len(app[c].signals) < MaxSignals
    /\ app' = [app EXCEPT ![c] = WsListen(Fresh(@), c, m)]
    /\ inp' = Input(c, m)
    /\ UNCHANGED relaystate

\* a datagram of the subnet is handled by _udp_listener, which runs when
\* there is no relay configured (lines 882-887)
UdpDatagram(c, m) ==
    /\ app[c].sock_tx
    /\ Len(app[c].signals) < MaxSignals
    /\ app' = [app EXCEPT ![c] = UdpListen(Fresh(@), c, m)]
    /\ inp' = Input(c, m)
    /\ UNCHANGED relaystate

\* the Qt thread delivers the oldest queued signal to its slots
QtSlot(c) ==
    /\ app[c].signals # <<>>
    /\ app' = [app EXCEPT ![c] =
                 Slots([Fresh(@) EXCEPT !.signals = Tail(@)], Head(app[c].signals))]
    /\ inp' = Event("slot", Head(app[c].signals))
    /\ UNCHANGED relaystate

\* a capper hotkey is pressed
Hotkey(c, index, raises) ==
    /\ Len(app[c].signals) < MaxSignals
    /\ app' = [app EXCEPT ![c] = OnHotkey(Fresh(@), c, index, raises)]
    /\ inp' = Event("key", index)
    /\ UNCHANGED relaystate

\* the 50 ms timer of the window fires
Tick(c) ==
    /\ app[c].qtimer
    /\ app[c].nticks < MaxTicks
    /\ app' = [app EXCEPT ![c] = TickTimeout(Fresh(@))]
    /\ inp' = Event("tick", 0)
    /\ UNCHANGED relaystate
\* The frames and datagrams a client is given: events of another client
\* ("Y") and echoes of its own ("X"), in range and out of range, with
\* fields missing, and the frames that are no event.
Ev(cmd, fields) == [cmd |-> cmd] @@ fields
NotUtf8 == [cmd |-> None, json |-> "bytes"]

StartEvents ==
    {Ev("start", [seconds |-> s, sender |-> "Y", capper |-> k]) :
        s \in {"35", "0.05"}, k \in {"1", "2"}}
    \cup {Ev("start", [seconds |-> "35", sender |-> "Y"]),
          Ev("start", [seconds |-> "35", capper |-> "2"])}
OwnStarts ==
    {Ev("start", [seconds |-> "35", sender |-> "X", capper |-> k]) : k \in {"1", "2"}}
BadStarts ==
    {Ev("start", [seconds |-> "35", sender |-> "Y", capper |-> k]) :
        k \in {"0", "3", "abc"}}
    \cup {Ev("start", [seconds |-> s, sender |-> "Y", capper |-> "1"]) :
             s \in {"abc", None, "-5"}}
    \cup {Ev("start", [sender |-> "Y", capper |-> "1"])}

BoardEvents ==
    {Ev("board_update", [board |-> b, index |-> "3", state |-> s, sender |-> "Y"]) :
        b \in Boards, s \in {"0", "1", "2"}}
    \cup {Ev("board_update", [board |-> "defense", index |-> "0", state |-> "2",
                              sender |-> "Y"]),
          Ev("board_update", [board |-> "offense", index |-> "1", state |-> "2"])}
OwnBoardEvents ==
    {Ev("board_update", [board |-> b, index |-> "0", state |-> "2", sender |-> "X"]) :
        b \in Boards}
BadBoardEvents ==
    {Ev("board_update", [board |-> b, index |-> "0", state |-> "2", sender |-> "Y"]) :
        b \in {"air", None}}
    \cup {Ev("board_update", [board |-> "defense", index |-> i, state |-> "2",
                              sender |-> "Y"]) : i \in {"-1", "4", "abc"}}
    \cup {Ev("board_update", [board |-> "defense", index |-> "0", state |-> s,
                              sender |-> "Y"]) : s \in {"3", "abc"}}
    \cup {Ev("board_update", [board |-> "defense", state |-> "2", sender |-> "Y"]),
          Ev("board_update", [board |-> "defense", index |-> "0", sender |-> "Y"])}

SyncInputs ==
    StartEvents \cup OwnStarts \cup BadStarts
    \cup BoardEvents \cup OwnBoardEvents \cup BadBoardEvents
    \cup BadFrames \cup {NotUtf8}

\* the three ways a client is started: with a relay (lines 861-871), with
\* the subnet only (882-887), with --no-network
InitSync ==
    /\ PASSWORD = None
    /\ clients = {}
    /\ role_claims = <<>>
    /\ pc = [w \in Conns |-> "new"]
    /\ closed = [w \in Conns |-> FALSE]
    /\ iter = [t \in Tasks |-> NoIter]
    /\ rtask = [w \in Conns |-> "none"]
    /\ nrecv = 0
    /\ inp = NoInput
    /\ out = {}
    /\ granted = {}
    /\ app \in {[c \in {Me} |-> NewClient("connecting", FALSE)],
                [c \in {Me} |-> NewClient("none", TRUE)],
                [c \in {Me} |-> NewClient("none", FALSE)]}

NextSync ==
    \/ WsConnected(Me)
    \/ WsFailed(Me)
    \/ WsDisconnected(Me)
    \/ \E m \in SyncInputs : WsFrame(Me, m)
    \/ \E m \in SyncInputs : UdpDatagram(Me, m)
    \/ QtSlot(Me)
    \/ Tick(Me)

SpecSync == InitSync /\ [][NextSync]_vars

\* The same client with its hotkeys, while the connection to the relay comes
\* and goes, receiving nothing.
NextLocal ==
    \/ WsConnected(Me)
    \/ WsFailed(Me)
    \/ WsDisconnected(Me)
    \/ QtSlot(Me)
    \/ \E i \in 0..1 : \E raises \in BOOLEAN : Hotkey(Me, i, raises)
    \/ Tick(Me)

SpecLocal == InitSync /\ [][NextLocal]_vars

\* ------------------------------------------------ the client's role frames
\* The same client, connected to a relay, given role_status and role_result
\* frames: maps that name both locked roles, one of them or none, a frame
\* without a map, a map that is no object, and results for locked and other
\* roles.
RoleMaps ==
    [LOCKED_ROLES -> {None, "X", "Y"}]
    \cup {[r \in {"Capper 1"} |-> "Y"], [r \in {"Capper 2"} |-> "X"], <<>>}
RoleFrames ==
    {RoleStatusMsg(p) : p \in RoleMaps}
    \cup {[cmd |-> "role_status"], RoleStatusMsg([json |-> "list"])}
    \cup {RoleResultMsg(r, ok) : r \in RoleNames, ok \in BOOLEAN}
    \cup {[cmd |-> "role_result", role |-> "Capper 2"]}

\* on_ws_connected (lines 1022-1024) run by the Qt thread
ClientOnWsConnected(c) ==
    /\ app[c].queued
    /\ app' = [app EXCEPT ![c] =
                 LET a == [Fresh(@) EXCEPT !.queued = FALSE] IN
                 IF a.role \in LOCKED_ROLES THEN RequestRole(a, c, a.role) ELSE a]
    /\ inp' = Event("qt", "on_ws_connected")
    /\ UNCHANGED relaystate

\* run (lines 1214-1219): the start-up prompt, None when it is cancelled
ClientRun(c, selected) ==
    /\ ~app[c].prompted
    /\ app' = [app EXCEPT ![c] =
                 LET a == [Fresh(@) EXCEPT !.prompted = TRUE] IN
                 IF a.role = DEFAULT_ROLE /\ selected # None
                 THEN SetRole(a, c, selected) ELSE a]
    /\ inp' = Event("qt", "run")
    /\ UNCHANGED relaystate

\* Apply is pressed in the settings window: update_settings (lines
\* 933-1017) as _on_apply calls it.  times are the cappers whose text names
\* durations (the ones in use): their cycle starts again; role is the button
\* that is checked; show are the two check boxes.  Hotkeys, monitor and map
\* are no state of this model.
Settings(c, times, role, show) ==
    /\ app' = [app EXCEPT ![c] =
                 LET a1 == [Fresh(@) EXCEPT !.cycle_index =
                                [i \in 0..1 |-> IF i \in times THEN -1 ELSE @[i]]]
                     a2 == IF role = None THEN a1
                           ELSE IF role \in LOCKED_ROLES
                           THEN IF a1.role_owners[role] \in {MY_ID(c), None}
                                THEN RequestRole(a1, c, role) ELSE a1
                           ELSE SetRole(a1, c, role)
                 IN  [a2 EXCEPT !.show = show]]
    /\ inp' = Event("settings", role)
    /\ UNCHANGED relaystate

InitRoles ==
    /\ PASSWORD = None
    /\ clients = {}
    /\ role_claims = <<>>
    /\ pc = [w \in Conns |-> "new"]
    /\ closed = [w \in Conns |-> FALSE]
    /\ iter = [t \in Tasks |-> NoIter]
    /\ rtask = [w \in Conns |-> "none"]
    /\ nrecv = 0
    /\ inp = NoInput
    /\ out = {}
    /\ granted = {}
    /\ app = [c \in {Me} |-> NewClient("connecting", FALSE)]

NextRoles ==
    \/ WsConnected(Me)
    \/ WsDisconnected(Me)
    \/ ClientOnWsConnected(Me)
    \/ \E r \in Roles \cup {None} : ClientRun(Me, r)
    \/ \E m \in RoleFrames : WsFrame(Me, m)
    \* what Apply may carry: the times left empty or filled in, any role,
    \* the defense board hidden or not
    \/ \E t \in {{}, {0, 1}} : \E r \in Roles :
          \E sh \in {[b \in Boards |-> TRUE], [b \in Boards |-> b # "defense"]} :
             Settings(Me, t, r, sh)

SpecRoles == InitRoles /\ [][NextRoles]_vars

\* ------------------------------------------------ the client's threads
\* The arrow keys are handled in the thread of the keyboard library (lines
\* 892, 913-922), the slots of board_update_signal in the Qt thread, frames
\* in the websocket thread.  _on_arrow and _apply_board_update take no lock,
\* so the threads interleave between any two bytecodes: a handler is cut
\* where it has read what it will write, and where it has computed what it
\* will display.  kb and qt are the frames of the two handlers.
Idle == [pc |-> "idle", board |-> None, index |-> 0, state |-> 0,
         eff |-> [i \in AssetIdx |-> 0]]

\* lines 1115-1121: the board of the client's role
ArrowBoard(a) ==
    IF a.role = "Defense" THEN "defense"
    ELSE IF a.role = "Offense" THEN "offense" ELSE None

\* mutant: left and right step through the three markers
ToggledCycle(state) == (state + 1) % 3

\* lines 1138-1141: both branches are the same
Toggled(state) == IF state = 0 THEN 2 ELSE 0

\* the message of _broadcast_board_update and send_board_update
BoardMsg(c, board, index, state) ==
    LET text == [i \in 0..3 |-> CASE i = 0 -> "0" [] i = 1 -> "1" [] i = 2 -> "2"
                                  [] i = 3 -> "3"] IN
    [cmd |-> "board_update", board |-> board, index |-> text[index],
     state |-> text[state], sender |-> MY_ID(c)]

\* an arrow key is pressed (_on_arrow, lines 1114-1141): the key is ignored
\* without a board that is shown (1116-1125), up and down move the selection
\* (1127-1133), left and right read the selected marker and compute the new
\* one (1135-1141)
KeyRead(c, direction) ==
    /\ app[c].kb.pc = "idle"
    /\ app' = [app EXCEPT ![c] =
                 LET a == Fresh(@)
                     board == ArrowBoard(a)
                 IN  IF board = None \/ ~a.show[board] THEN a
                     ELSE IF direction \in {"up", "down"}
                     THEN [a EXCEPT !.board_selected[board] =
                              (@ + (IF direction = "up" THEN -1 ELSE 1))
                                 % Len(BOARD_ASSETS)]
                     ELSE [a EXCEPT !.kb =
                              [Idle EXCEPT
                                 !.pc = "read", !.board = board,
                                 !.index = a.board_selected[board],
                                 !.state = Toggled(
                                    a.board_states[board][a.board_selected[board]])]]]
    /\ inp' = Event("arrow", direction)
    /\ UNCHANGED relaystate

\* the keyboard thread goes on to its write: line 1142, and the argument of
\* line 1081 evaluated
KeyWrite(c) ==
    /\ app[c].kb.pc = "read"
    /\ app' = [app EXCEPT ![c] =
                 LET a == Fresh(@)
                     b == [a EXCEPT !.board_states[a.kb.board][a.kb.index] = a.kb.state]
                 IN  [b EXCEPT !.kb.pc = "derived",
                               !.kb.eff = EffectiveBoardStates(b, a.kb.board).ret]]
    /\ inp' = Event("kb", "write")
    /\ UNCHANGED relaystate

\* the keyboard thread shows the board (window.set_board_states of line
\* 1081) and announces the marker (line 1144).  _broadcast_board_update
\* (lines 1146-1162) sends on the websocket when it is running, else on the
\* subnet when there is a socket; raises says that the send raises, which
\* both paths catch
KeyShow(c, raises) ==
    /\ app[c].kb.pc = "derived"
    /\ app' = [app EXCEPT ![c] =
                 LET k == app[c].kb
                     a == [Fresh(@) EXCEPT !.shown[k.board] = SetStates(k.eff),
                                           !.kb = Idle]
                     msg == BoardMsg(c, k.board, k.index, k.state)
                 IN  IF a.ws # "none" /\ a.running
                     THEN IF raises THEN a ELSE WsSend(a, msg)
                     ELSE IF a.sock_tx
                     THEN IF raises THEN a ELSE [a EXCEPT !.sent = <<msg>>]
                     ELSE a]
    /\ inp' = Event("kb", IF raises THEN "show, send raises" ELSE "show")
    /\ UNCHANGED relaystate

\* the Qt thread delivers the oldest queued board_update to its two slots,
\* up to the argument of line 1081: the window's slot shows the state as it
\* came (lines 404-405), _apply_board_update stores it and computes the
\* display
QtStore(c) ==
    /\ app[c].qt.pc = "idle"
    /\ app[c].signals # <<>>
    /\ Head(app[c].signals).sig = "board"
    /\ app' = [app EXCEPT ![c] =
                 LET s == Head(app[c].signals)
                     a == [Fresh(@) EXCEPT !.signals = Tail(@)]
                     b == [SetState(a, s.board, s.index, s.state)
                             EXCEPT !.board_states[s.board][s.index] =
                                       IF s.state = 1 THEN 0 ELSE s.state]
                 IN  [b EXCEPT !.qt =
                         [Idle EXCEPT !.pc = "derived", !.board = s.board,
                                      !.index = s.index, !.state = s.state,
                                      !.eff = EffectiveBoardStates(b, s.board).ret]]]
    /\ inp' = Event("qt", "store")
    /\ UNCHANGED relaystate

\* the Qt thread goes on to the display: window.set_board_states of line
\* 1081 in the slot
QtShow(c) ==
    /\ app[c].qt.pc = "derived"
    /\ app' = [app EXCEPT ![c] =
                 [Fresh(@) EXCEPT !.shown[app[c].qt.board] = SetStates(app[c].qt.eff),
                                  !.qt = Idle]]
    /\ inp' = Event("qt", "show")
    /\ UNCHANGED relaystate

\* the board_update frames of another client that the relay forwards
RemoteUpdates ==
    {Ev("board_update", [board |-> b, index |-> "0", state |-> s, sender |-> "Y"]) :
        b \in Boards, s \in {"0", "2"}}
    \cup {Ev("board_update", [board |-> "defense", index |-> "1", state |-> "2",
                              sender |-> "Y"])}

\* the ways the client is started and set up: role, the defense check box,
\* and the network (a relay that is connected, the subnet, none)
InitBoards ==
    /\ PASSWORD = None
    /\ clients = {}
    /\ role_claims = <<>>
    /\ pc = [w \in Conns |-> "new"]
    /\ closed = [w \in Conns |-> FALSE]
    /\ iter = [t \in Tasks |-> NoIter]
    /\ rtask = [w \in Conns |-> "none"]
    /\ nrecv = 0
    /\ inp = NoInput
    /\ out = {}
    /\ granted = {}
    /\ \E su \in {<<"Defense", TRUE, "ws">>, <<"Defense", TRUE, "udp">>,
                   <<"Defense", TRUE, "none">>, <<"Defense", FALSE, "ws">>,
                   <<"Offense", TRUE, "udp">>, <<"Capper 2", TRUE, "ws">>} :
          app = [c \in {Me} |->
                   [(IF su[3] = "ws"
                     THEN [NewClient("connected", FALSE) EXCEPT !.running = TRUE]
                     ELSE NewClient("none", su[3] = "udp"))
                       EXCEPT !.role = su[1],
                              !.show = [b \in Boards |-> b # "defense" \/ su[2]]]
                   @@ [kb |-> Idle, qt |-> Idle]]

NextBoards ==
    \/ \E d \in {"up", "down", "left", "right"} : KeyRead(Me, d)
    \/ KeyWrite(Me)
    \/ \E raises \in BOOLEAN : KeyShow(Me, raises)
    \/ \E m \in RemoteUpdates : WsFrame(Me, m)
    \/ \E m \in RemoteUpdates : UdpDatagram(Me, m)
    \/ QtStore(Me)
    \/ QtShow(Me)

SpecBoards == InitBoards /\ [][NextBoards]_vars

\* --------------------------------------------------- duplicate delivery
\* A connected client is given board_update and role_status frames, any
\* frame any number of times; the signal a frame queues is delivered to its
\* slots before the next frame is taken.  dup says that the frame handled
\* last is the frame handled before it.
Replay(c, m) ==
    /\ app' = [app EXCEPT ![c] =
                 LET b == WsListen(Fresh(@), c, m)
                     d == IF b.signals = <<>> THEN b
                          ELSE Slots([b EXCEPT !.signals = Tail(@)], Head(b.signals))
                 IN  [d EXCEPT !.dup = (inp = Input(c, m))]]
    /\ inp' = Input(c, m)
    /\ UNCHANGED relaystate

InitReplay ==
    /\ PASSWORD = None
    /\ clients = {}
    /\ role_claims = <<>>
    /\ pc = [w \in Conns |-> "new"]
    /\ closed = [w \in Conns |-> FALSE]
    /\ iter = [t \in Tasks |-> NoIter]
    /\ rtask = [w \in Conns |-> "none"]
    /\ nrecv = 0
    /\ inp = NoInput
    /\ out = {}
    /\ granted = {}
    /\ app = [c \in {Me} |->
                [NewClient("connected", FALSE) EXCEPT !.running = TRUE]
                @@ [dup |-> FALSE]]

NextReplay ==
    \E m \in BoardEvents
            \cup {RoleStatusMsg(p) : p \in [LOCKED_ROLES -> {None, "X", "Y"}]}
            \cup {RoleStatusMsg([r \in {"Capper 1"} |-> "Y"]), [cmd |-> "role_status"]} :
       Replay(Me, m)

SpecReplay == InitReplay /\ [][NextReplay]_vars

\* ------------------------------------------------------------ properties
IsClaim(i, w, r) == i.ws = w /\ i.m.cmd = "role_claim" /\ i.m.role = r
IsRelease(i, w, r) == i.ws = w /\ i.m.cmd = "role_release" /\ i.m.role = r
Holders(r) == {g \in granted : g.role = r}

\* C1: at most one owner.  For each locked role, at most one identity has
\* been told role_result ok:true without having released the role or
\* disconnected since, and the relay's table binds the role to that
\* identity's connection; the table never names a handler that has ended.
C1_AtMostOneOwner ==
    /\ \A r \in LOCKED_ROLES : Cardinality(Holders(r)) <= 1
    /\ \A g \in granted : BoundTo(role_claims, g.role, g.ws)
    /\ \A r \in DOMAIN role_claims :
          r \in LOCKED_ROLES /\ pc[role_claims[r].ws] \notin {"new", "done"}

\* C1 witness: a role is held by one connection and another registered
\* connection has just asked for it
C1_Witness ==
    \E g \in granted : \E w \in Conns \ {g.ws} :
        /\ w \in clients /\ g.ws \in clients
        /\ IsClaim(inp, w, g.role)

\* C2: of two connections that claim the same unclaimed locked role, the one
\* processed first is answered ok:true and is bound to the role in that very
\* step (read and write of the owner are one step); the one processed while
\* the first holds the role is answered ok:false and changes nothing.  The
\* handlers interleave at every await: the winner may be suspended in its
\* role_result or role_status send while the loser is processed.
C2_FirstClaimWins ==
    [][\A w \in Conns : \A r \in LOCKED_ROLES :
         IsClaim(inp', w, r) =>
           /\ (r \notin DOMAIN role_claims /\ ~closed[w]) =>
                 /\ out' = {Frame(w, RoleResultMsg(r, TRUE))}
                 /\ BoundTo(role_claims', r, w)
                 /\ Holders(r)' = {[ws |-> w, role |-> r, id |-> inp'.m.sender]}
           /\ (\E g \in Holders(r) : g.ws # w) =>
                 /\ out' \subseteq {Frame(w, RoleResultMsg(r, FALSE))}
                 /\ (~closed[w] => out' # {})
                 /\ role_claims' = role_claims
                 /\ granted' = granted]_vars

\* C2 witness: the loser is refused while the winner is still suspended
\* inside the handling of its own claim
C2_Witness ==
    \E g \in granted : \E w \in Conns \ {g.ws} :
        /\ pc[g.ws] \in {"claim_bcast", "bcast"}
        /\ IsClaim(inp, w, g.role)
        /\ out = {Frame(w, RoleResultMsg(g.role, FALSE))}

C4_ReclaimByOwnerId ==
    [][\A w \in Conns : \A r \in LOCKED_ROLES :
         (/\ IsClaim(inp', w, r)
          /\ r \in DOMAIN role_claims
          /\ role_claims[r].id = inp'.m.sender
          /\ ~closed[w]) =>
           /\ out' = {Frame(w, RoleResultMsg(r, TRUE))}
           /\ role_claims'[r] = [id |-> inp'.m.sender, ws |-> w]]_vars

\* C5: no preemption.  While a locked role stays claimed by a connection
\* that is open, the owner id the relay reports for it does not change,
\* whatever role_claim arrives.
C5_OwnerIdStable ==
    [][\A r \in LOCKED_ROLES :
         (/\ r \in DOMAIN role_claims
          /\ ~closed[role_claims[r].ws]
          /\ r \in DOMAIN role_claims') =>
           RolesPayload(role_claims')[r] = RolesPayload(role_claims)[r]]_vars

\* C6: when the handler of a connection ends, by whichever path, every role
\* bound to that connection is unclaimed, every other role is as it was, and
\* a connection whose handler has ended is bound to no role.
C6_EndReleases ==
    [][\A w \in Conns :
         /\ (pc[w] # "done" /\ pc'[w] = "done") =>
               \A r \in LOCKED_ROLES :
                  IF r \in DOMAIN role_claims /\ role_claims[r].ws # w
                  THEN r \in DOMAIN role_claims' /\ role_claims'[r] = role_claims[r]
                  ELSE r \notin DOMAIN role_claims'
         /\ pc'[w] = "done" =>
               \A r \in DOMAIN role_claims' : role_claims'[r].ws # w]_vars

\* C6 witness: a handler has ended while it held a role, and the other role
\* is still held by a connection that goes on
C6_Witness ==
    \E w \in Conns : \E r \in DOMAIN role_claims :
        /\ pc[w] = "done" /\ rtask[w] = "pending"
        /\ pc[role_claims[r].ws] = "recv"

\* C7: role_release(R) from the connection R is bound to unclaims R, leaves
\* the other role alone and starts the role_status broadcast of the resulting
\* table (its first send is part of the step); role_release from any other
\* connection, or for an unclaimed or non-locked role, changes nothing and
\* sends nothing.
C7_ReleaseByOwnerOnly ==
    [][\A w \in Conns : \A r \in RoleNames :
         IsRelease(inp', w, r) =>
           IF r \in DOMAIN role_claims /\ role_claims[r].ws = w
           THEN /\ r \notin DOMAIN role_claims'
                /\ \A q \in DOMAIN role_claims \ {r} :
                      q \in DOMAIN role_claims' /\ role_claims'[q] = role_claims[q]
                /\ DOMAIN role_claims' \subseteq DOMAIN role_claims
                /\ IF clients = {}
                   THEN out' = {} /\ pc'[w] = "recv"
                   ELSE /\ pc'[w] = "bcast"
                        /\ \E c \in clients :
                             /\ iter'[HTask(w)].seen = {c}
                             /\ out' = Sent(c, RoleStatusMsg(RolesPayload(role_claims')))
           ELSE /\ out' = {}
                /\ UNCHANGED <<clients, role_claims, pc, iter, rtask, granted>>]_vars

\* C7 witness: the owner's release has just unclaimed the role and the first
\* role_status of the broadcast is written
C7_Witness ==
    \E w \in Conns : \E r \in LOCKED_ROLES : \E c \in clients :
        /\ IsRelease(inp, w, r)
        /\ r \notin DOMAIN role_claims
        /\ pc[w] = "bcast"
        /\ out = {Frame(c, RoleStatusMsg(RolesPayload(role_claims)))}

\* C8: when the role_status broadcast of a role_claim or role_release is
\* over, every open connection that was in the registry when it began and
\* still is has been sent the role_status.
C8_StatusReachesRegistry ==
    [][\A w \in Conns :
         (pc[w] = "bcast" /\ pc'[w] = "recv") =>
           \A c \in clients' \cap iter[HTask(w)].snap :
              ~closed'[c] => c \in iter[HTask(w)].seen \ iter[HTask(w)].disc]_vars

\* C9: a role_result is written only to the connection whose role_claim is
\* being answered, for the role that was asked.
C9_ResultToRequesterOnly ==
    \A f \in out :
       f.m.cmd = "role_result" => IsClaim(inp, f.to, f.m.role)

\* C9 witness: a role_result has been written while another connection is
\* in the registry
C9_Witness ==
    \E f \in out : \E c \in clients \ {f.to} :
        f.m.cmd = "role_result" /\ ~closed[c] /\ pc[c] = "recv"

\* C10 as stated: every role_claim taken from an open connection, whatever
\* role it names, is answered with exactly one role_result.
C10_EveryClaimAnswered ==
    \A w \in Conns :
       (inp.ws = w /\ inp.m.cmd = "role_claim" /\ ~closed[w]) =>
          Cardinality({f \in out : f.to = w /\ f.m.cmd = "role_result"}) = 1

\* C10 amended: a role_claim for a locked role taken from an open connection
\* is answered with exactly one role_result, for that role, and nothing else
\* is written in that step; a role_claim that names any other role is
\* answered with nothing.
C10_LockedClaimAnswered ==
    \A w \in Conns :
       (inp.ws = w /\ inp.m.cmd = "role_claim" /\ ~closed[w]) =>
          IF inp.m.role \in LOCKED_ROLES
          THEN \E ok \in BOOLEAN : out = {Frame(w, RoleResultMsg(inp.m.role, ok))}
          ELSE out = {}

\* C10 witness: a claim for a locked role held by someone else has just been
\* answered with its one role_result
C10_Witness ==
    \E w \in Conns :
        /\ inp.ws = w /\ inp.m.cmd = "role_claim" /\ inp.m.role \in LOCKED_ROLES
        /\ ~closed[w]
        /\ ~BoundTo(role_claims, inp.m.role, w)
        /\ Cardinality(out) = 1

\* C11: when the handler of a connection ends, one role_status broadcast is
\* issued if the connection held a role and none if it held none: the task
\* is created in that step and at no other time, the connection has left the
\* registry, the task's one message is the table as it is when the task
\* starts (no role is bound to the connection then), its first send is part
\* of its first step, and every frame it writes goes to a connection of the
\* registry other than the one that ended.
C11_DisconnectBroadcastOnce ==
    [][\A w \in Conns :
         /\ (pc[w] # "done" /\ pc'[w] = "done") =>
               /\ w \notin clients'
               /\ rtask'[w] = IF \E r \in DOMAIN role_claims : role_claims[r].ws = w
                              THEN "pending" ELSE "none"
         /\ (pc[w] = "done" <=> pc'[w] = "done") =>
               (rtask'[w] = "pending" => rtask[w] = "pending")
         /\ (rtask[w] = "pending" /\ rtask'[w] # "pending") =>
               /\ \A r \in DOMAIN role_claims : role_claims[r].ws # w
               /\ IF clients = {}
                  THEN out' = {} /\ rtask'[w] = "none"
                  ELSE /\ rtask'[w] = "run"
                       /\ iter'[RTask(w)].msg = RoleStatusMsg(RolesPayload(role_claims))
                       /\ \E c \in clients \ {w} :
                             out' = Sent(c, RoleStatusMsg(RolesPayload(role_claims)))
         /\ (rtask[w] = "run" /\ iter'[RTask(w)].seen # iter[RTask(w)].seen) =>
               \A f \in out' :
                  /\ f.to \in clients \ {w}
                  /\ f.m = iter[RTask(w)].msg]_vars

\* C11 witness: the handler of a connection that held both roles has ended
\* and its one broadcast, with both roles unclaimed, is being written to the
\* connection that remains
C11_Witness ==
    \E w \in Conns : \E c \in clients \ {w} :
        /\ pc[w] = "done" /\ rtask[w] = "run"
        /\ out = {Frame(c, RoleStatusMsg([r \in LOCKED_ROLES |-> None]))}

IsEvent(m) == m.cmd \in {"start", "board_update"}

\* the handler of a has just run a step of the fan-out of an event taken from a
FanStepOf(a) ==
    \/ inp'.ws = a /\ IsEvent(inp'.m)
    \/ pc[a] = "fan" /\ iter'[HTask(a)].seen # iter[HTask(a)].seen

\* C12: no step of the fan-out of a start or board_update event taken from
\* connection a writes a frame to a, and a is never among the connections
\* the loop has sent to, whatever the registry holds.
C12_NeverBackToSender ==
    [][\A a \in FanConns :
         /\ FanStepOf(a) => \A f \in out' : f.to # a
         /\ pc'[a] = "fan" => a \notin iter'[HTask(a)].seen]_vars

\* C12 witness: an event of a connection that is in the registry has just
\* been written to another connection
C12_Witness ==
    \E a \in clients : \E c \in clients \ {a} :
        /\ pc[a] = "fan" /\ ~closed[a]
        /\ IsEvent(iter[HTask(a)].msg)
        /\ out = {Frame(c, iter[HTask(a)].msg)}

\* C13: when the fan-out of an event taken from connection a is over, every
\* other connection that was in the registry when the loop began, still is
\* in it and is open has been sent the event, also when the registry changed
\* while the loop was suspended in a send.
C13_EventReachesOthers ==
    [][\A a \in FanConns :
         (pc[a] = "fan" /\ pc'[a] = "recv") =>
           \A c \in (clients' \cap iter[HTask(a)].snap) \ {a} :
              ~closed'[c] => c \in iter[HTask(a)].seen \ iter[HTask(a)].disc]_vars

\* C14: when a fan-out in which a send failed on a closed connection is
\* over, every other connection that was in the registry when the loop
\* began, still is in it and is open has been sent the event, wherever in
\* the order the failure came, and no connection whose send failed is in the
\* registry.
C14_FailedSendIsolated ==
    [][\A a \in FanConns :
         (pc[a] = "fan" /\ pc'[a] = "recv" /\ iter[HTask(a)].disc # {}) =>
           /\ \A c \in (clients' \cap iter[HTask(a)].snap) \ {a} :
                 ~closed'[c] => c \in iter[HTask(a)].seen
           /\ clients' \cap iter[HTask(a)].disc = {}]_vars

ListedFields(cmd) == IF cmd = "start" THEN StartFields ELSE BoardFields

\* C16 as stated: the frames written in the step that takes a start or
\* board_update event carry, for every listed field, the value received
\* (null for a field that was not received): nothing altered or defaulted.
C16_ForwardedUnchanged ==
    (inp.ws # NoConn /\ IsEvent(inp.m)) =>
       \A f \in out : \A k \in ListedFields(inp.m.cmd) :
          Get(f.m, k, None) = Get(inp.m, k, None)

\* C16 amended: the frames written carry the cmd and exactly the listed
\* fields; a listed field that was received has the value received, a
\* capper that was not received is 1, any other listed field that was not
\* received is null; no other field of the object received is forwarded; a
\* frame written by a later trip of a loop is the message that loop was
\* started with, sent to a connection other than its sender.
C16_ForwardedListedFields ==
    /\ (inp.ws # NoConn /\ IsEvent(inp.m)) =>
          \A f \in out :
             /\ f.to # inp.ws
             /\ DOMAIN f.m = {"cmd"} \cup ListedFields(inp.m.cmd)
             /\ f.m.cmd = inp.m.cmd
             /\ \A k \in ListedFields(inp.m.cmd) :
                   f.m[k] = IF k \in DOMAIN inp.m THEN inp.m[k]
                            ELSE IF k = "capper" THEN "1" ELSE None
             /\ pc[inp.ws] = "fan" /\ f.m = iter[HTask(inp.ws)].msg
    /\ \A w \in Conns : pc[w] = "fan" =>
          DOMAIN iter[HTask(w)].msg =
             {"cmd"} \cup ListedFields(iter[HTask(w)].msg.cmd)
    /\ inp = NoInput =>
          \A f \in out : IsEvent(f.m) =>
             \E w \in Conns : /\ pc[w] = "fan"
                              /\ f.to \in iter[HTask(w)].seen \ {w}
                              /\ f.m = iter[HTask(w)].msg

\* C16 witness: a start received without capper and with a field the relay
\* does not read has been forwarded to the other connection
C16_Witness ==
    /\ inp.ws # NoConn /\ inp.m.cmd = "start"
    /\ "capper" \notin DOMAIN inp.m /\ "note" \in DOMAIN inp.m
    /\ \E f \in out : f.to # inp.ws /\ f.m.capper = "1"

\* C17: a frame taken after the handshake that is not JSON, is JSON but no
\* object, or is an object with no cmd or an unknown cmd is dropped: nothing
\* is written to any connection, the registry, the claim table and every
\* task are as they were, and the handler is back at its message loop, where
\* the next frame of the connection is taken.
C17_MalformedDropped ==
    [][\A w \in Conns :
         (inp'.ws = w /\ inp'.m \in BadFrames) =>
           /\ out' = {}
           /\ UNCHANGED <<clients, role_claims, pc, closed, iter, rtask, granted>>
           /\ pc'[w] = "recv"]_vars

\* C17 witness: a frame that is no request has been dropped while its
\* connection is in the registry and holds a role
C17_Witness ==
    \E w \in clients :
        /\ inp.ws = w /\ inp.m \in BadFrames
        /\ ~closed[w] /\ pc[w] = "recv"
        /\ \E r \in DOMAIN role_claims : role_claims[r].ws = w

\* C18: with a secret configured, the only way past the password prompt is
\* a first message with the matching password.  A first message with any
\* other password ends the handler in that step: the connection is out of
\* the registry, at most auth_failed is written, and the claim table and
\* every running broadcast are as they were.  Once its handler has ended, a
\* connection is never written to, no frame of it is taken, and it never
\* comes back into the registry.
C18_AuthFailureEndsHandler ==
    [][\A w \in Conns :
         /\ (pc[w] = "auth" /\ pc'[w] # "auth") =>
               /\ PASSWORD # None
               /\ pc'[w] \in {"hs_status", "done"}
               /\ pc'[w] = "hs_status" =>
                     /\ inp' = Input(w, AuthMsg(PASSWORD))
                     /\ out' = {Frame(w, ConnectedMsg(Cardinality(clients)))}
         /\ (inp'.ws = w /\ inp'.m.cmd = "auth" /\ inp'.m.password # PASSWORD) =>
               /\ pc'[w] = "done"
               /\ w \notin clients'
               /\ out' = (IF closed[w] THEN {} ELSE {Frame(w, AuthFailedMsg)})
               /\ role_claims' = role_claims
               /\ iter' = iter
         /\ pc[w] = "done" =>
               /\ pc'[w] = "done"
               /\ w \notin clients'
               /\ inp'.ws # w
               /\ \A f \in out' : f.to # w]_vars

\* C18 witness: a connection has been refused for a wrong password while
\* another connection is registered and holds a role
C18_Witness ==
    \E w \in Conns : \E r \in DOMAIN role_claims :
        /\ inp.ws = w /\ inp.m.cmd = "auth" /\ inp.m.password # PASSWORD
        /\ out = {Frame(w, AuthFailedMsg)}
        /\ role_claims[r].ws \in clients

\* C19: a connection that gets past registration (and the password prompt,
\* if any) is sent connected with the size of the registry, itself
\* included, as it is at that moment; the next frame the handler writes to
\* it is role_status with the claim table as it is at that moment; and no
\* frame of the connection is taken by the message loop before both have
\* been sent.
C19_HandshakeBeforeMessages ==
    [][\A w \in Conns :
         /\ (pc[w] # "hs_status" /\ pc'[w] = "hs_status") =>
               /\ pc[w] \in {"new", "auth"}
               /\ w \in clients'
               /\ out' = {Frame(w, ConnectedMsg(Cardinality(clients')))}
         /\ (pc[w] = "hs_status" /\ pc'[w] # "hs_status") =>
               \/ pc'[w] = "done" /\ closed[w] /\ out' = {}
               \/ /\ pc'[w] = "recv"
                  /\ out' = {Frame(w, RoleStatusMsg(RolesPayload(role_claims)))}
                  /\ role_claims' = role_claims
         /\ (pc[w] # "recv" /\ pc'[w] = "recv") =>
               pc[w] \in {"hs_status", "claim_bcast", "bcast", "fan"}
         /\ (pc[w] \in {"new", "auth"}) =>
               pc'[w] \in {"new", "auth", "hs_status", "done"}
         /\ (inp'.ws = w /\ inp'.m.cmd # "auth") => pc[w] = "recv"]_vars

\* C19 witness: the snapshot sent to a connection that has just completed
\* the handshake names the owner of a role held by another connection
C19_Witness ==
    \E w \in clients : \E r \in DOMAIN role_claims :
        /\ role_claims[r].ws # w
        /\ pc[w] = "recv" /\ inp = NoInput
        /\ out = {Frame(w, RoleStatusMsg(RolesPayload(role_claims)))}
        /\ Cardinality(clients) = NConn

\* the client is connected, its start-up is over, every request it has made
\* has been taken and answered by the relay, and it has handled every answer
Settled(c) ==
    /\ app[c].running /\ app[c].prompted /\ ~app[c].queued
    /\ app[c].pending_role = None
    /\ app[c].inbox = <<>> /\ app[c].outbox = <<>>
    /\ pc[c] = "recv"

\* C20: no two clients connected to the relay, each with all its requests
\* answered, have the same locked role as their local role.
C20_LocalRolesExclusive ==
    \A c \in DOMAIN app : \A d \in DOMAIN app \ {c} :
        (Settled(c) /\ Settled(d) /\ app[c].role \in LOCKED_ROLES) =>
           app[c].role # app[d].role

\* C24: whenever the generator (asset 0) of a board is raw 2, the display
\* computed for that board is 2 for the generator and 1 for every other
\* asset, whatever their raw values; raw [2,0,1,2] is displayed as [2,1,1,1].
C24_GeneratorRule ==
    /\ \A b \in app.refreshed :
          app.board_states[b][0] = 2 =>
             /\ app.shown[b][0] = 2
             /\ \A i \in AssetIdx \ {0} : app.shown[b][i] = 1
    /\ EffectiveBoardStates(
          [board_states |-> [b \in Boards |-> [i \in AssetIdx |->
              IF i \in {0, 3} THEN 2 ELSE IF i = 2 THEN 1 ELSE 0]]], "defense").ret
       = [i \in AssetIdx |-> IF i = 0 THEN 2 ELSE 1]

\* C24 witness: a board with the generator destroyed and the other assets
\* raw 0, 1 and 2 has been displayed
C24_Witness ==
    \E b \in app.refreshed :
        /\ app.board_states[b][0] = 2 /\ app.board_states[b][1] = 0
        /\ app.board_states[b][2] = 1 /\ app.board_states[b][3] = 2

\* C25: whenever the generator of a board is not raw 2, the display computed
\* for that board is, asset by asset, 0 where the raw marker is 1 and the raw
\* marker elsewhere; raw [0,1,2,1] is displayed as [0,0,2,0].
C25_StateOneCollapse ==
    /\ \A b \in app.refreshed :
          app.board_states[b][0] # 2 =>
             \A i \in AssetIdx :
                app.shown[b][i] = IF app.board_states[b][i] = 1 THEN 0
                                  ELSE app.board_states[b][i]
    /\ EffectiveBoardStates(
          [board_states |-> [b \in Boards |-> [i \in AssetIdx |->
              IF i \in {1, 3} THEN 1 ELSE IF i = 2 THEN 2 ELSE 0]]], "offense").ret
       = [i \in AssetIdx |-> IF i = 2 THEN 2 ELSE 0]

\* C25 witness: a board raw [0,1,2,1] has been displayed
C25_Witness ==
    \E b \in app.refreshed :
        /\ app.board_states[b][0] = 0 /\ app.board_states[b][1] = 1
        /\ app.board_states[b][2] = 2 /\ app.board_states[b][3] = 1

\* C26: computing the display of a board changes no raw marker of either
\* board, and the display of a board is the same for every value of the
\* other board's raw markers and whatever was computed before.
C26_DerivePure ==
    [][/\ app'.board_states = app.board_states
       /\ \A b \in app'.refreshed : \A other \in RawLists :
             app'.shown[b] =
                EffectiveBoardStates(
                   [board_states |-> [app.board_states EXCEPT ![OtherBoard(b)] = other]],
                   b).ret]_vars

\* C26 witness: both boards have been displayed, they differ, and a raw
\* marker is one that the display does not show as it is
C26_Witness ==
    /\ app.refreshed = Boards
    /\ app.board_states["defense"] # app.board_states["offense"]
    /\ \E b \in Boards : app.shown[b] # app.board_states[b]

\* the board and countdown state of a client, with the signals on their way
SyncState(a) == <<a.board_states, a.shown, a.remaining, a.qtimer, a.signals>>
IsFrame(i) == i.ws # NoConn
IsSlot(i, sig) == i.ws = NoConn /\ "ev" \in DOMAIN i /\ i.ev = "slot" /\ i.arg.sig = sig
IsKey(i) == i.ws = NoConn /\ "ev" \in DOMAIN i /\ i.ev = "key"

\* C21: a start or board_update whose sender is the client's own id, taken
\* from the relay or from the subnet, leaves the raw markers, the display,
\* the countdowns and the queued signals of the client as they were.
C21_OwnEchoIgnored ==
    [][(/\ IsFrame(inp') /\ IsEvent(inp'.m)
        /\ Get(inp'.m, "sender", None) = MY_ID(Me)) =>
          SyncState(app'[Me]) = SyncState(app[Me])]_vars

\* C21 witness: an own start has been taken from the relay while a countdown
\* runs and a marker is set
C21_Witness ==
    /\ IsFrame(inp) /\ inp.m \in OwnStarts
    /\ app[Me].ws = "connected"
    /\ \E i \in 0..1 : app[Me].remaining[i] > 0
    /\ \E b \in Boards : app[Me].board_states[b][3] = 2

\* C22: when the slots of a board_update of another sender (board defense or
\* offense, index 0..3, state 0, 1 or 2) have run, the raw marker at (board,
\* index) is the state of the event, whatever it was before, and every other
\* raw marker is as it was.
C22_LastWriteWins ==
    [][IsSlot(inp', "board") =>
          app'[Me].board_states =
             [app[Me].board_states EXCEPT ![inp'.arg.board][inp'.arg.index] =
                 inp'.arg.state]]_vars

\* C23: a start of another sender for capper N with seconds s queues the
\* signal (N-1, s), and when its slot has run the remaining time of capper N
\* is s, whether or not that countdown was running, and the remaining time
\* of the other capper is as it was.
C23_StartRestarts ==
    [][/\ (IsFrame(inp') /\ inp'.m \in StartEvents) =>
             app'[Me].signals =
                Append(app[Me].signals,
                       StartSignal(IntOf[Get(inp'.m, "capper", "1")] - 1,
                                   FloatOf[inp'.m.seconds]))
       /\ IsSlot(inp', "start") =>
             app'[Me].remaining =
                [app[Me].remaining EXCEPT ![inp'.arg.index] = inp'.arg.seconds]]_vars

\* C23 witness: a start has been applied to a countdown that was running,
\* with another duration, while the other countdown runs too
C23_Witness ==
    /\ IsSlot(inp, "start")
    /\ app[Me].nticks > 0
    /\ app[Me].remaining[inp.arg.index] = inp.arg.seconds
    /\ app[Me].remaining[1 - inp.arg.index] > 1
    /\ app[Me].remaining[1 - inp.arg.index] # 35 * TicksPerSecond

\* C29: in every state of the connection a hotkey press advances the cycle
\* of its capper and queues the start of the next duration, whether the
\* announcement is sent, fails or is skipped; the slot of that signal then
\* sets the countdown, and no change of the connection touches the
\* countdowns, the cycle or the queued signals.
C29_LocalFirst ==
    [][/\ IsKey(inp') =>
             LET i == inp'.arg
                 k == (app[Me].cycle_index[i] + 1) % Len(TIMER_OPTIONS) IN
             /\ app'[Me].cycle_index = [app[Me].cycle_index EXCEPT ![i] = k]
             /\ app'[Me].signals =
                   Append(app[Me].signals,
                          StartSignal(i, TIMER_OPTIONS[k + 1] * TicksPerSecond))
             /\ app'[Me].remaining = app[Me].remaining
       /\ IsSlot(inp', "start") =>
             app'[Me].remaining[inp'.arg.index] = inp'.arg.seconds
       /\ (inp'.ws = NoConn /\ inp'.ev = "ws") =>
             /\ SyncState(app'[Me]) = SyncState(app[Me])
             /\ app'[Me].cycle_index = app[Me].cycle_index]_vars

\* C29 witness: a hotkey has been pressed after the connection was lost,
\* nothing was sent, and the start is queued
C29_Witness ==
    /\ IsKey(inp)
    /\ app[Me].ws \in {"disconnected", "failed"}
    /\ app[Me].outbox = <<>> /\ app[Me].sent = <<>>
    /\ app[Me].signals # <<>>
    /\ app[Me].cycle_index[inp.arg] = 1

\* the datagrams that are no valid event
BadDatagrams == BadFrames \cup {NotUtf8} \cup BadStarts \cup BadBoardEvents

\* C30: a datagram that is no UTF-8 JSON, no object, has an unknown cmd or
\* carries a field that is out of range or no number is discarded: the raw
\* markers, the display, the countdowns and the queued signals are as they
\* were, and the listener takes the next datagram.
C30_BadDatagramDiscarded ==
    [][(IsFrame(inp') /\ app[Me].sock_tx /\ inp'.m \in BadDatagrams) =>
          SyncState(app'[Me]) = SyncState(app[Me])]_vars

\* C27: when a role_status frame whose roles map is an object (or is
\* missing, which is the empty object) has been handled, the client's view
\* of each locked role is the value of the map, None for a role the map does
\* not name, whatever the view was before.
C27_RoleStatusReplaces ==
    [][(/\ IsFrame(inp') /\ inp'.m.cmd = "role_status"
        /\ IsDict(Get(inp'.m, "roles", <<>>))) =>
          app'[Me].role_owners =
             [r \in LOCKED_ROLES |-> Get(Get(inp'.m, "roles", <<>>), r, None)]]_vars

\* C27 witness: a map that names one role only has been handled, and the
\* view holds its owner for that role and None for the other
C27_Witness ==
    /\ IsFrame(inp) /\ inp.m.cmd = "role_status"
    /\ DOMAIN Get(inp.m, "roles", <<>>) = {"Capper 1"}
    /\ app[Me].role_owners["Capper 1"] = "Y"
    /\ app[Me].role_owners["Capper 2"] = None
    /\ app[Me].role = "Capper 2"

\* C28: when a client has handled role_result for a locked role R, its local
\* role is R if ok was true; if ok was false its local role is not R, and is
\* the role it had before.
C28_RoleResultApplied ==
    [][\A c \in Conns :
         (/\ app[c].inbox # <<>>
          /\ app'[c].inbox = Tail(app[c].inbox)
          /\ Head(app[c].inbox).cmd = "role_result"
          /\ Head(app[c].inbox).role \in LOCKED_ROLES) =>
            IF Head(app[c].inbox).ok
            THEN app'[c].role = Head(app[c].inbox).role
            ELSE /\ app'[c].role # Head(app[c].inbox).role
                 /\ app'[c].role = app[c].role]_vars

\* C33: the two locked roles are arbitrated independently.  A role_claim or
\* role_release for one locked role leaves the entry of the other as it was;
\* a role_claim for an unclaimed locked role is granted to the requester
\* whatever the other role's entry is (bound to the requester, to another
\* connection, or unclaimed).
C33_RolesIndependent ==
    [][\A w \in Conns : \A r \in LOCKED_ROLES :
         /\ (IsClaim(inp', w, r) \/ IsRelease(inp', w, r)) =>
               \A q \in LOCKED_ROLES \ {r} :
                  /\ q \in DOMAIN role_claims' <=> q \in DOMAIN role_claims
                  /\ q \in DOMAIN role_claims => role_claims'[q] = role_claims[q]
                  /\ Holders(q)' = Holders(q)
         /\ (IsClaim(inp', w, r) /\ r \notin DOMAIN role_claims) =>
               /\ role_claims'[r] = [id |-> inp'.m.sender, ws |-> w]
               /\ out' = Sent(w, RoleResultMsg(r, TRUE))]_vars

\* C33 witness: a connection has just been granted a role while the other
\* role, which it would be refused, is bound to another connection
C33_Witness ==
    \E w \in Conns : \E r \in LOCKED_ROLES : \E q \in LOCKED_ROLES \ {r} :
        /\ IsClaim(inp, w, r)
        /\ out = {Frame(w, RoleResultMsg(r, TRUE))}
        /\ q \in DOMAIN role_claims /\ role_claims[q].ws # w

\* C34 as stated: the registry holds a connection from the start of its
\* handler until the handler ends; a connection whose handler has ended is
\* absent from the registry, holds no role claim and is written no frame.
C34_RegistryIsLiveHandlers ==
    \A w \in Conns :
       /\ pc[w] \notin {"new", "done"} => w \in clients
       /\ pc[w] = "done" =>
             /\ w \notin clients
             /\ \A r \in DOMAIN role_claims : role_claims[r].ws # w
             /\ \A f \in out : f.to = w => (inp.ws = w /\ f.m = AuthFailedMsg)


\* C34 amended: a connection is in the registry only while its handler runs.
\* It enters when the handler starts and leaves when the handler ends, or
\* earlier when a loop that failed to send to it, the connection being
\* closed, has run to its end; an open connection whose handler runs is in
\* the registry.  After the handler has ended the connection is absent from
\* the registry, is bound to no role, no loop meets it and no frame is
\* written to it.
C34_RegistryMembership ==
    [][\A w \in Conns :
         /\ w \in clients' => pc'[w] \notin {"new", "done"}
         /\ (pc'[w] \notin {"new", "done"} /\ ~closed'[w]) => w \in clients'
         /\ (w \notin clients /\ w \in clients') => pc[w] = "new"
         /\ (w \in clients /\ w \notin clients') =>
               \/ pc[w] # "done" /\ pc'[w] = "done"
               \/ /\ closed[w]
                  /\ \E t \in Tasks : w \in iter[t].disc /\ iter'[t] = NoIter
         /\ pc'[w] = "done" =>
               \A r \in DOMAIN role_claims' : role_claims'[r].ws # w
         /\ pc[w] = "done" =>
               /\ \A f \in out' : f.to # w
               /\ \A t \in Tasks : w \in iter'[t].seen => w \in iter[t].seen]_vars

\* C34 witness: a handler has ended, and a later role_status broadcast of the
\* connection that remains is being written
C34_Witness ==
    \E w \in Conns : \E v \in clients :
        /\ pc[w] = "done"
        /\ pc[v] = "bcast" /\ iter[HTask(v)].snap = {v}
        /\ out = {Frame(v, RoleStatusMsg(RolesPayload(role_claims)))}


\* C35: with a shared secret configured, the only frame written to a
\* connection that has not yet supplied the password is auth_required: no
\* start, board_update or role_status made for other connections reaches it.
C35_NothingBeforeAuth ==
    PASSWORD # None =>
       \A f \in out : pc[f.to] = "auth" => f.m = AuthRequiredMsg


\* the relay has nothing left to do: every handler waits for a frame, no
\* broadcast task is pending or running, and every frame sent either way
\* has been handled
Quiescent ==
    \A c \in Conns :
       /\ pc[c] \in {"new", "recv", "done"}
       /\ rtask[c] = "none"
       /\ app[c].inbox = <<>> /\ app[c].outbox = <<>> /\ ~app[c].queued

\* C36: role views converge.  When the relay is quiescent, the view the last
\* role_status has left in each connected client is the claim table of the
\* relay, however the broadcasts interleaved at their sends.
C36_RoleViewsConverge ==
    Quiescent =>
       \A c \in clients :
          pc[c] = "recv" => app[c].role_owners = RolesPayload(role_claims)


\* a start whose capper is not 1 or 2 or whose seconds are missing or no
\* number; a board_update whose board, index or state is out of range
Malformed(m) ==
    \/ /\ m.cmd = "start"
       /\ \/ Get(m, "capper", "1") \notin {"1", "2"}
          \/ Get(m, "seconds", None) \notin DOMAIN FloatOf
    \/ /\ m.cmd = "board_update"
       /\ \/ Get(m, "board", None) \notin Boards
          \/ Get(m, "index", None) \notin {"0", "1", "2", "3"}
          \/ Get(m, "state", None) \notin {"0", "1", "2"}

C38_OpenRoleSetLocally ==
    [][(/\ inp'.ws = NoConn /\ inp'.ev = "settings"
        /\ inp'.arg \notin LOCKED_ROLES) =>
          /\ app'[Me].role = inp'.arg
          /\ app'[Me].pending_role = app[Me].pending_role
          /\ app'[Me].outbox =
                IF app[Me].role \in LOCKED_ROLES /\ app[Me].running
                THEN <<RoleReleaseMsg(app[Me].role, MY_ID(Me))>>
                ELSE <<>>]_vars

\* C38 witness: Offense has been selected by a client that was granted
\* Capper 2, and the release of Capper 2 is on its way to the relay
C38_Witness ==
    /\ inp = Event("settings", "Offense")
    /\ app[Me].role = "Offense"
    /\ app[Me].claimed_role = "Capper 2"
    /\ app[Me].outbox = <<RoleReleaseMsg("Capper 2", MY_ID(Me))>>


\* the steps of the keyboard thread
IsArrow(i) == i.ws = NoConn /\ "ev" \in DOMAIN i /\ i.ev = "arrow"
IsKb(i, what) == i.ws = NoConn /\ "ev" \in DOMAIN i /\ i.ev = "kb" /\ i.arg \in what

\* what the handler of an arrow key does to the markers: a press is ignored
\* unless the role is Defense or Offense and that board is shown, up and
\* down write no marker, left and right write the selected marker of the
\* role's board, 2 if the handler read 0 and 0 otherwise, and no other
\* marker of either board
ArrowMarkers ==
    /\ IsArrow(inp') =>
          /\ app'[Me].board_states = app[Me].board_states
          /\ app'[Me].outbox = <<>> /\ app'[Me].sent = <<>>
          /\ app'[Me].kb.pc = "read" <=>
                /\ inp'.arg \in {"left", "right"}
                /\ app[Me].role \in {"Defense", "Offense"}
                /\ app[Me].show[ArrowBoard(app[Me])]
          /\ app'[Me].kb.pc = "read" =>
                LET b == IF app[Me].role = "Defense" THEN "defense" ELSE "offense"
                    i == app[Me].board_selected[b] IN
                /\ app'[Me].kb.board = b /\ app'[Me].kb.index = i
                /\ app'[Me].kb.state = IF app[Me].board_states[b][i] = 0 THEN 2 ELSE 0
    /\ IsKb(inp', {"write"}) =>
          /\ app'[Me].board_states =
                [app[Me].board_states EXCEPT ![app[Me].kb.board][app[Me].kb.index] =
                    app[Me].kb.state]
          /\ app[Me].kb.state # 1
          /\ app'[Me].outbox = <<>> /\ app'[Me].sent = <<>>
    /\ IsKb(inp', {"show", "show, send raises"}) =>
          app'[Me].board_states = app[Me].board_states

\* C40 as stated: a left or right press that is not ignored toggles the
\* selected marker of the role's board between 0 and 2, writes no other
\* marker, and when its handler is through, no send having failed, one
\* board_update with the new value has been sent.
C40_ArrowTogglesAndSends ==
    [][/\ ArrowMarkers
       /\ IsKb(inp', {"show"}) =>
             app'[Me].outbox \o app'[Me].sent =
                <<BoardMsg(Me, app[Me].kb.board, app[Me].kb.index, app[Me].kb.state)>>]_vars

\* C40 amended: the same for the markers; the board_update with the new
\* value is sent on the relay connection when it is running, else on the
\* subnet when the client has a socket for it, and is not sent when there is
\* neither or when the send fails.
C40_ArrowTogglesAndAnnounces ==
    [][/\ ArrowMarkers
       /\ IsKb(inp', {"show", "show, send raises"}) =>
             LET msg == BoardMsg(Me, app[Me].kb.board, app[Me].kb.index, app[Me].kb.state)
                 ok == inp'.arg = "show" IN
             /\ app'[Me].outbox = IF app[Me].running /\ ok THEN <<msg>> ELSE <<>>
             /\ app'[Me].sent =
                   IF ~app[Me].running /\ app[Me].sock_tx /\ ok THEN <<msg>> ELSE <<>>]_vars

\* C40 witness: the handler of a right press has set the fourth marker of the
\* defense board back to 0, the generator being destroyed, and has announced
\* it to the relay
C40_Witness ==
    /\ IsKb(inp, {"show"})
    /\ app[Me].role = "Defense"
    /\ app[Me].board_states["defense"][3] = 0
    /\ app[Me].board_states["defense"][0] = 2
    /\ app[Me].outbox = <<BoardMsg(Me, "defense", 3, 0)>>


\* C31: the markers, the countdowns and the role view of a client are
\* written from one thread of control: no handler of an arrow key and no
\* apply step of a received event runs while another is part-way through.
C31_OneHandlerAtATime ==
    app[Me].kb.pc = "idle" \/ app[Me].qt.pc = "idle"

\* C37: when every mutation of the raw markers has been processed (no
\* handler part-way, no signal queued), each board displays the derivation
\* of its raw markers: 1 shown as 0, and every asset after a destroyed
\* generator shown as 1.
C37_DisplayIsDerived ==
    (app[Me].kb.pc = "idle" /\ app[Me].qt.pc = "idle" /\ app[Me].signals = <<>>) =>
       \A b \in Boards :
          app[Me].shown[b] =
             LET raw == app[Me].board_states[b]
                 s1 == [i \in AssetIdx |-> IF raw[i] = 1 THEN 0 ELSE raw[i]]
             IN  IF s1[0] = 2 THEN [i \in AssetIdx |-> IF i = 0 THEN 2 ELSE 1] ELSE s1


\* C32: duplicate delivery is harmless.  A board_update handled twice in a
\* row leaves the raw markers and the display as the first handling left
\* them, and a role_status handled twice in a row leaves the same role view.
C32_DuplicateHarmless ==
    [][(app'[Me].dup /\ inp'.m.cmd \in {"board_update", "role_status"}) =>
          /\ app'[Me].board_states = app[Me].board_states
          /\ app'[Me].shown = app[Me].shown
          /\ app'[Me].role_owners = app[Me].role_owners]_vars

\* C32 witness: a board_update that destroys the generator of the defense
\* board has been handled twice in a row, and the board shows the derivation
C32_Witness ==
    /\ app[Me].dup
    /\ inp.m.cmd = "board_update" /\ inp.m.board = "defense" /\ inp.m.index = "0"
    /\ app[Me].board_states["defense"][0] = 2
    /\ app[Me].shown["defense"][3] = 1
    /\ app[Me].role_owners["Capper 1"] = "Y"

====
